---- MODULE Spec2Model ----
(***************************************************************************)
(* Chunked voxel world of chickencraft: Chunk storage (world/Chunk.ts),    *)
(* World coordinate mapping and dirty propagation (world/World.ts), the    *)
(* ChunkMesher face culling (world/ChunkMesh.ts), the render driver's      *)
(* rebuild bookkeeping (engine/BabylonApp.ts) and the terrain generator    *)
(* (world/WorldGen.ts).                                                    *)
(***************************************************************************)
EXTENDS Integers, Sequences, FiniteSets, TLC

VARIABLES
    chunks,       \* World.chunks: chunk key -> Chunk object
    chunkMeshes,  \* BabylonApp.chunkMeshes: chunk key -> faces of the mesh held
    lastOp,       \* history: the operation that produced this state
    written,      \* history: position -> id of the last World.setBlock there
    edits,        \* number of World.setBlock calls made so far
    chunk,        \* a stand-alone Chunk object (Chunk.test.ts style)
    newChunk,     \* the Chunk the last step deserialized chunk's image into
    resolved,     \* the result of the last worldToLocalCoord call
    found,        \* the keys of the chunks the last getChunksInRadius returned
    app,          \* the World instances and who holds which: BabylonApp, InputManager, Player
    heap,         \* the ArrayBuffers of the storage-sharing runs and the views over them
    inventory,    \* Inventory.slots
    crafting,     \* the grid of the last findRecipe call and the recipe returned
    rebuild,      \* an in-flight createChunkMesh (off-main-thread execution)
    gen           \* two World + WorldGenerator pairs built from one WorldSettings

vars == <<chunks, chunkMeshes, lastOp, written, edits, chunk, newChunk, resolved,
          found, app, heap, inventory, crafting, rebuild, gen>>

----------------------------------------------------------------------------
(* Program constants *)

CHUNK_WIDTH == 32
CHUNK_HEIGHT == 64
CHUNK_DEPTH == 32
CHUNK_SIZE == CHUNK_WIDTH * CHUNK_HEIGHT * CHUNK_DEPTH

WORLD_WIDTH == 1024
WORLD_DEPTH == 1024
WORLD_MIN_Y == -32
WORLD_MAX_Y == 192
SEA_LEVEL == 0

AIR == 0
GRASS == 1
WOOD == 2
BRICK == 3
BEDROCK == 4
LAVA == 5
CHICKENHEAD == 6
CRAFTING_TABLE == 7

\* An id with no registry entry (Block.test.ts uses 999 as the invalid id).
UnknownId == 999

----------------------------------------------------------------------------
(* Bounds of the model *)

\* World.setBlock calls per behaviour.
MaxEdits == 2

\* Columns per axis that a generateChunk call visits.
GenSpan == 2

\* generateChunk calls per world.
MaxGenCalls == 1

\* generateAroundPosition calls per behaviour.
MaxRounds == 2

----------------------------------------------------------------------------
(* JavaScript arithmetic *)

\* JS a % n for n > 0: the remainder takes the sign of the dividend.
JsRem(a, n) == IF a >= 0 THEN a % n ELSE -((-a) % n)

\* Math.floor(a / n) for integers a and n > 0.
FloorDiv(a, n) == a \div n

\* v & 0x3FF and v & 0x3F on a 32-bit two's complement integer.
Low10(v) == v % 1024
Low6(v) == v % 64

\* A Vec3 with integer components.
Pos(x, y, z) == [x |-> x, y |-> y, z |-> z]

----------------------------------------------------------------------------
(* Block registry (world/Block.ts) *)

\* TextureId values in faceTiles order [top, bottom, +z, -z, +x, -x].
BlockDefs ==
    (AIR :> [solid |-> FALSE, opaque |-> FALSE, faceTiles |-> <<0, 0, 0, 0, 0, 0>>]) @@
    (GRASS :> [solid |-> TRUE, opaque |-> TRUE, faceTiles |-> <<0, 2, 1, 1, 1, 1>>]) @@
    (WOOD :> [solid |-> TRUE, opaque |-> TRUE, faceTiles |-> <<3, 3, 3, 3, 3, 3>>]) @@
    (BRICK :> [solid |-> TRUE, opaque |-> TRUE, faceTiles |-> <<4, 4, 4, 4, 4, 4>>]) @@
    (BEDROCK :> [solid |-> TRUE, opaque |-> TRUE, faceTiles |-> <<5, 5, 5, 5, 5, 5>>]) @@
    (LAVA :> [solid |-> FALSE, opaque |-> TRUE, faceTiles |-> <<6, 6, 6, 6, 6, 6>>]) @@
    (CHICKENHEAD :> [solid |-> TRUE, opaque |-> TRUE, faceTiles |-> <<8, 8, 8, 8, 7, 8>>]) @@
    (CRAFTING_TABLE :> [solid |-> TRUE, opaque |-> TRUE, faceTiles |-> <<9, 3, 10, 10, 10, 10>>])

\* BlockRegistry.getBlock(id) !== undefined
HasBlock(id) == id \in DOMAIN BlockDefs

\* Mutant: the flag returned is the block's opaque flag.
isSolid_OpaqueFlag(id) == IF HasBlock(id) THEN BlockDefs[id].opaque ELSE FALSE

isSolid(id) == IF HasBlock(id) THEN BlockDefs[id].solid ELSE FALSE

\* Mutant: an id without a registry entry counts as opaque.
isOpaque_UnknownOpaque(id) == IF HasBlock(id) THEN BlockDefs[id].opaque ELSE TRUE

isOpaque(id) == IF HasBlock(id) THEN BlockDefs[id].opaque ELSE FALSE

----------------------------------------------------------------------------
(* Uint16Array: a typed array of len words.  Held compactly: `fill` is the *)
(* word of every index not in DOMAIN cells, `cells` the words that differ. *)

NoCells == [i \in {} |-> 0]

\* new Uint16Array(n): n zero words.
NewArray(n) == [len |-> n, fill |-> 0, cells |-> NoCells]

\* arr[i]; an index outside the array reads undefined, which every bit
\* operation of the callers coerces to 0.
ArrGet(arr, i) ==
    IF i < 0 \/ i >= arr.len THEN 0
    ELSE IF i \in DOMAIN arr.cells THEN arr.cells[i]
    ELSE arr.fill

\* arr[i] = w; a write outside the array is ignored by a typed array, and the
\* stored word is w modulo 2^16.
ArrSet(arr, i, w) ==
    IF i < 0 \/ i >= arr.len THEN arr
    ELSE LET v == w % 65536
             keep == DOMAIN arr.cells \ {i}
         IN  [arr EXCEPT !.cells =
                 IF v = arr.fill
                 THEN [j \in keep |-> arr.cells[j]]
                 ELSE [j \in keep \cup {i} |-> IF j = i THEN v ELSE arr.cells[j]]]

----------------------------------------------------------------------------
(* Chunk (world/Chunk.ts) *)

\* new Chunk(coord, yOffset)
NewChunk(coord, yOffset) ==
    [coord |-> coord, yOffset |-> yOffset,
     voxels |-> NewArray(CHUNK_SIZE), isDirty |-> FALSE]

\* Mutant: the x coordinate is not range-checked.
getIndex_UncheckedX(x, y, z) ==
    IF y < 0 \/ y >= CHUNK_HEIGHT \/ z < 0 \/ z >= CHUNK_DEPTH
    THEN -1
    ELSE x + z * CHUNK_WIDTH + y * CHUNK_WIDTH * CHUNK_DEPTH

getIndex(x, y, z) ==
    IF x < 0 \/ x >= CHUNK_WIDTH \/ y < 0 \/ y >= CHUNK_HEIGHT
       \/ z < 0 \/ z >= CHUNK_DEPTH
    THEN -1
    ELSE x + z * CHUNK_WIDTH + y * CHUNK_WIDTH * CHUNK_DEPTH

getVoxel(c, x, y, z) ==
    LET index == getIndex(x, y, z)
    IN  IF index = -1 THEN AIR ELSE Low10(ArrGet(c.voxels, index))

\* a | b on non-negative integers.
RECURSIVE BitOr(_, _)
BitOr(a, b) ==
    IF a = 0 THEN b
    ELSE IF b = 0 THEN a
    ELSE (IF a % 2 = 1 \/ b % 2 = 1 THEN 1 ELSE 0) + 2 * BitOr(a \div 2, b \div 2)

\* Mutant: the id is stored without `& 0x3FF`; the Uint16Array keeps the low
\* 16 bits of the word.
setVoxel_Unmasked(c, x, y, z, voxel) ==
    LET index == getIndex(x, y, z)
    IN  IF index = -1 THEN c
        ELSE LET meta == Low6(ArrGet(c.voxels, index) \div 1024)
             IN  [c EXCEPT !.voxels = ArrSet(@, index, BitOr(voxel, meta * 1024) % 65536),
                           !.isDirty = TRUE]

\* Mutant: the word written holds the id alone.
setVoxel_DroppingMeta(c, x, y, z, voxel) ==
    LET index == getIndex(x, y, z)
    IN  IF index = -1 THEN c
        ELSE [c EXCEPT !.voxels = ArrSet(@, index, Low10(voxel)),
                       !.isDirty = TRUE]

setVoxel(c, x, y, z, voxel) ==
    LET index == getIndex(x, y, z)
    IN  IF index = -1 THEN c
        ELSE LET meta == Low6(ArrGet(c.voxels, index) \div 1024)
             IN  [c EXCEPT !.voxels = ArrSet(@, index, Low10(voxel) + meta * 1024),
                           !.isDirty = TRUE]

getBlockId(c, x, y, z) == Low10(getVoxel(c, x, y, z))

setBlockId(c, x, y, z, blockId) == setVoxel(c, x, y, z, blockId)

getMeta(c, x, y, z) ==
    LET index == getIndex(x, y, z)
    IN  IF index = -1 THEN 0 ELSE Low6(ArrGet(c.voxels, index) \div 1024)

\* Mutant: the metadata write does not mark the chunk dirty.
setMeta_NoDirty(c, x, y, z, meta) ==
    LET index == getIndex(x, y, z)
    IN  IF index = -1 THEN c
        ELSE LET blockId == Low10(ArrGet(c.voxels, index))
             IN  [c EXCEPT !.voxels = ArrSet(@, index, Low10(blockId) + Low6(meta) * 1024)]

setMeta(c, x, y, z, meta) ==
    LET index == getIndex(x, y, z)
    IN  IF index = -1 THEN c
        ELSE LET blockId == Low10(ArrGet(c.voxels, index))
             IN  [c EXCEPT !.voxels = ArrSet(@, index, Low10(blockId) + Low6(meta) * 1024),
                           !.isDirty = TRUE]

\* for (i < CHUNK_SIZE) voxels[i] = blockId & 0x3FF: every index of the array
\* that exists gets the word; the loop bound is CHUNK_SIZE, not voxels.length.
fill(c, blockId) ==
    LET w == Low10(blockId)
        beyond == {i \in DOMAIN c.voxels.cells : i >= CHUNK_SIZE}
    IN  [c EXCEPT !.voxels =
            IF c.voxels.len <= CHUNK_SIZE
            THEN [len |-> c.voxels.len, fill |-> w, cells |-> NoCells]
            ELSE [len |-> c.voxels.len, fill |-> w,
                  cells |-> [i \in beyond |-> c.voxels.cells[i]]],
                  !.isDirty = TRUE]

getWorldPosition(c) ==
    [x |-> c.coord.x * CHUNK_WIDTH, y |-> c.yOffset, z |-> c.coord.z * CHUNK_DEPTH]

markDirty(c) == [c EXCEPT !.isDirty = TRUE]

clearDirty(c) == [c EXCEPT !.isDirty = FALSE]

needsRemesh(c) == c.isDirty

\* An ArrayBuffer of n bytes: `len` is byteLength, `even` / `odd` the byte at
\* every even / odd offset not in DOMAIN cells, `cells` the bytes that differ.
NewBuffer(n) == [len |-> n, even |-> 0, odd |-> 0, cells |-> NoCells]

\* The byte at offset j of buffer buf.
ByteAt(buf, j) ==
    IF j \in DOMAIN buf.cells THEN buf.cells[j]
    ELSE IF j % 2 = 0 THEN buf.even ELSE buf.odd

\* The bytes of a Uint16Array, the low byte of each word first (the byte order
\* of the platforms the program runs on).
BytesOf(arr) ==
    LET lo(w) == w % 256
        hi(w) == w \div 256
        offs == {2 * i : i \in DOMAIN arr.cells} \cup
                {2 * i + 1 : i \in DOMAIN arr.cells}
        byte(j) == IF j % 2 = 0 THEN lo(arr.cells[j \div 2])
                   ELSE hi(arr.cells[j \div 2])
        fillAt(j) == IF j % 2 = 0 THEN lo(arr.fill) ELSE hi(arr.fill)
    IN  [len |-> 2 * arr.len, even |-> lo(arr.fill), odd |-> hi(arr.fill),
         cells |-> [j \in {k \in offs : byte(k) # fillAt(k)} |-> byte(j)]]

\* new Uint16Array(buffer): byteLength / 2 words, each from two bytes.
WordsOf(buf) ==
    LET fillWord == buf.even + 256 * buf.odd
        word(i) == ByteAt(buf, 2 * i) + 256 * ByteAt(buf, 2 * i + 1)
        idx == {j \div 2 : j \in DOMAIN buf.cells}
    IN  [len |-> buf.len \div 2, fill |-> fillWord,
         cells |-> [i \in {k \in idx : word(k) # fillWord} |-> word(i)]]

\* Mutant: only the low byte of each word is copied.
serialize_LowBytes(c) ==
    LET b == BytesOf(c.voxels)
    IN  [b EXCEPT !.odd = 0, !.cells = [j \in {k \in DOMAIN b.cells : k % 2 = 0} |-> b.cells[j]]]

\* serialize(): buffer.slice(0), a copy of the bytes of the backing store.
serialize(c) == BytesOf(c.voxels)

\* new Uint16Array(buffer) throws a RangeError when byteLength is odd.
deserializeThrows(buffer) == buffer.len % 2 # 0

\* deserialize(buffer): the backing store becomes a Uint16Array over buffer and
\* the chunk is marked dirty; when the constructor throws, neither happens.
deserialize(c, buffer) ==
    IF deserializeThrows(buffer) THEN c
    ELSE [c EXCEPT !.voxels = WordsOf(buffer), !.isDirty = TRUE]

----------------------------------------------------------------------------
(* World (world/World.ts).  w is the chunks map: key -> Chunk. *)

NoChunks == [k \in {} |-> 0]

\* `${coord.x},${yOffset},${coord.z}`
\* Mutant: the key leaves out the vertical band.
getChunkKey_NoBand(coord, yOffset) == <<coord.x, 0, coord.z>>

getChunkKey(coord, yOffset) == <<coord.x, yOffset, coord.z>>

\* Mutant: the quotient is truncated toward zero instead of floored.
worldToChunkCoord_Truncating(worldX, worldZ) ==
    [x |-> (worldX - JsRem(worldX, CHUNK_WIDTH)) \div CHUNK_WIDTH,
     z |-> (worldZ - JsRem(worldZ, CHUNK_DEPTH)) \div CHUNK_DEPTH]

worldToChunkCoord(worldX, worldZ) ==
    [x |-> FloorDiv(worldX, CHUNK_WIDTH), z |-> FloorDiv(worldZ, CHUNK_DEPTH)]

worldToChunkY(worldY) ==
    FloorDiv(worldY - WORLD_MIN_Y, CHUNK_HEIGHT) * CHUNK_HEIGHT + WORLD_MIN_Y

\* Mutant: truncating remainder without the +CHUNK_WIDTH correction.
worldToLocalCoord_Truncating(worldPos) ==
    LET chunkCoord == worldToChunkCoord(worldPos.x, worldPos.z)
        yOffset == worldToChunkY(worldPos.y)
    IN  [chunk |-> chunkCoord, yOffset |-> yOffset,
         local |-> [x |-> JsRem(worldPos.x, CHUNK_WIDTH),
                    y |-> worldPos.y - yOffset,
                    z |-> JsRem(worldPos.z, CHUNK_DEPTH)]]

worldToLocalCoord(worldPos) ==
    LET chunkCoord == worldToChunkCoord(worldPos.x, worldPos.z)
        yOffset == worldToChunkY(worldPos.y)
        localX == JsRem(JsRem(worldPos.x, CHUNK_WIDTH) + CHUNK_WIDTH, CHUNK_WIDTH)
        localY == worldPos.y - yOffset
        localZ == JsRem(JsRem(worldPos.z, CHUNK_DEPTH) + CHUNK_DEPTH, CHUNK_DEPTH)
    IN  [chunk |-> chunkCoord, yOffset |-> yOffset,
         local |-> [x |-> localX, y |-> localY, z |-> localZ]]

\* getChunk(coord, yOffset) !== undefined
hasChunk(w, coord, yOffset) == getChunkKey(coord, yOffset) \in DOMAIN w

\* Mutant: a fresh chunk is installed under the key even when one is resident.
getOrCreateChunk_Replacing(w, coord, yOffset) ==
    LET key == getChunkKey(coord, yOffset)
    IN  [k \in DOMAIN w \cup {key} |->
            IF k = key THEN NewChunk(coord, yOffset) ELSE w[k]]

\* The map after getOrCreateChunk(coord, yOffset); the chunk returned is the
\* one the map then holds under the key.
getOrCreateChunk(w, coord, yOffset) ==
    LET key == getChunkKey(coord, yOffset)
    IN  IF key \in DOMAIN w THEN w
        ELSE [k \in DOMAIN w \cup {key} |->
                 IF k = key THEN NewChunk(coord, yOffset) ELSE w[k]]

\* Positions are integer lattice points, so Math.floor(local.*) is the identity.
getBlock(w, worldPos) ==
    LET r == worldToLocalCoord(worldPos)
        key == getChunkKey(r.chunk, r.yOffset)
    IN  IF key \notin DOMAIN w THEN AIR
        ELSE getBlockId(w[key], r.local.x, r.local.y, r.local.z)

\* Mutant: the neighbour is fetched with getOrCreateChunk instead of getChunk.
markNeighbor_Creating(w, onFace, coord, yOffset) ==
    LET key == getChunkKey(coord, yOffset)
    IN  IF onFace
        THEN [getOrCreateChunk(w, coord, yOffset) EXCEPT ![key] = markDirty(@)]
        ELSE w

\* getChunk(coord, yOffset)?.markDirty(), under the condition of its if.
markNeighbor(w, onFace, coord, yOffset) ==
    LET key == getChunkKey(coord, yOffset)
    IN  IF onFace /\ key \in DOMAIN w
        THEN [w EXCEPT ![key] = markDirty(@)]
        ELSE w

\* Mutant: the edit marks only the chunk it writes.
setBlock_NoPropagation(w, worldPos, blockId) ==
    LET r == worldToLocalCoord(worldPos)
        key == getChunkKey(r.chunk, r.yOffset)
        w0 == getOrCreateChunk(w, r.chunk, r.yOffset)
    IN  [w0 EXCEPT ![key] = setBlockId(@, r.local.x, r.local.y, r.local.z, blockId)]

setBlock(w, worldPos, blockId) ==
    LET r == worldToLocalCoord(worldPos)
        c == r.chunk
        l == r.local
        key == getChunkKey(c, r.yOffset)
        w0 == getOrCreateChunk(w, c, r.yOffset)
        w1 == [w0 EXCEPT ![key] = setBlockId(@, l.x, l.y, l.z, blockId)]
        w2 == markNeighbor(w1, l.x = 0, [x |-> c.x - 1, z |-> c.z], r.yOffset)
        w3 == markNeighbor(w2, l.x = CHUNK_WIDTH - 1, [x |-> c.x + 1, z |-> c.z], r.yOffset)
        w4 == markNeighbor(w3, l.z = 0, [x |-> c.x, z |-> c.z - 1], r.yOffset)
        w5 == markNeighbor(w4, l.z = CHUNK_DEPTH - 1, [x |-> c.x, z |-> c.z + 1], r.yOffset)
        w6 == markNeighbor(w5, l.y = 0, c, r.yOffset - CHUNK_HEIGHT)
        w7 == markNeighbor(w6, l.y = CHUNK_HEIGHT - 1, c, r.yOffset + CHUNK_HEIGHT)
    IN  w7

World_isSolid(w, worldPos) == isSolid(getBlock(w, worldPos))

\* Mutant: the read fetches its chunk with getOrCreateChunk.
getBlockCall_Creating(w, worldPos) ==
    LET r == worldToLocalCoord(worldPos)
    IN  [chunks |-> getOrCreateChunk(w, r.chunk, r.yOffset),
         value |-> getBlock(w, worldPos)]

\* World.getBlock(worldPos) as a call: the map it leaves and the id it returns.
\* The chunk is fetched with getChunk, which only reads the map, and
\* Chunk.getBlockId only reads the voxel array.
getBlockCall(w, worldPos) == [chunks |-> w, value |-> getBlock(w, worldPos)]

\* World.isSolid(worldPos) as a call: this.getBlock, then BlockRegistry.isSolid.
isSolidCall(w, worldPos) ==
    LET r == getBlockCall(w, worldPos)
    IN  [chunks |-> r.chunks, value |-> isSolid(r.value)]

\* Mutant: the upper Y end is exclusive.
isInBounds_ExclusiveTop(worldPos) ==
    /\ worldPos.x >= 0 /\ worldPos.x < WORLD_WIDTH
    /\ worldPos.y >= WORLD_MIN_Y /\ worldPos.y < WORLD_MAX_Y
    /\ worldPos.z >= 0 /\ worldPos.z < WORLD_DEPTH

isInBounds(worldPos) ==
    /\ worldPos.x >= 0 /\ worldPos.x < WORLD_WIDTH
    /\ worldPos.y >= WORLD_MIN_Y /\ worldPos.y <= WORLD_MAX_Y
    /\ worldPos.z >= 0 /\ worldPos.z < WORLD_DEPTH

\* getAllChunks(): Array.from(this.chunks.values()), as the set of its elements.
getAllChunks(w) == {w[k] : k \in DOMAIN w}

\* Mutant: every chunk is emptied and stays resident.
clear_Emptying(w) == [k \in DOMAIN w |-> NewChunk(w[k].coord, w[k].yOffset)]

\* clear(): this.chunks.clear()
clear(w) == NoChunks

\* getChunksInRadius(center, radius): the keys of the chunks pushed, in the
\* order of the x / z / y loops.
getChunksInRadius(w, center, radius) ==
    LET centerChunk == worldToChunkCoord(center.x, center.z)
        chunkRadius == FloorDiv(radius + CHUNK_WIDTH - 1, CHUNK_WIDTH)
        n == 2 * chunkRadius + 1
        bands == FloorDiv(WORLD_MAX_Y - WORLD_MIN_Y + CHUNK_HEIGHT - 1, CHUNK_HEIGHT)
        at(i) == getChunkKey([x |-> centerChunk.x - chunkRadius + (i \div (n * bands)),
                              z |-> centerChunk.z - chunkRadius + ((i \div bands) % n)],
                             WORLD_MIN_Y + (i % bands) * CHUNK_HEIGHT)
        resident(k) == k \in DOMAIN w
    IN  SelectSeq([j \in 1 .. n * n * bands |-> at(j - 1)], resident)

----------------------------------------------------------------------------
(* ChunkMesher (world/ChunkMesh.ts).  A face is <<x, y, z, faceIndex, tile>>: *)
(* the quad addFace appends for local cell (x, y, z).                      *)

\* The neighbour each faceIndex is tested against: 0 +y, 1 -y, 2 +z, 3 -z,
\* 4 +x, 5 -x.
FaceDir ==
    <<[x |-> 0, y |-> 1, z |-> 0], [x |-> 0, y |-> -1, z |-> 0],
      [x |-> 0, y |-> 0, z |-> 1], [x |-> 0, y |-> 0, z |-> -1],
      [x |-> 1, y |-> 0, z |-> 0], [x |-> -1, y |-> 0, z |-> 0]>>

\* Mutant: no culling, every face of a voxel is emitted.
shouldRenderFace_Always(w, x, y, z) == TRUE

shouldRenderFace(w, x, y, z) == ~isOpaque(getBlock(w, [x |-> x, y |-> y, z |-> z]))

\* The local cell of a backing-store index (inverse of getIndex).
CellOf(i) ==
    [x |-> i % CHUNK_WIDTH,
     y |-> i \div (CHUNK_WIDTH * CHUNK_DEPTH),
     z |-> (i \div CHUNK_WIDTH) % CHUNK_DEPTH]

\* The cells the x/y/z loops do not skip at `if (blockId === 0) continue` and
\* `if (!block) continue`.  When the word that fills the array is air or has
\* no registry entry, only the words stored apart from it can pass both tests.
MeshedCells(c) ==
    LET fillId == Low10(c.voxels.fill)
        idx == IF fillId = AIR \/ ~HasBlock(fillId)
               THEN {i \in DOMAIN c.voxels.cells : i < CHUNK_SIZE}
               ELSE 0 .. (CHUNK_SIZE - 1)
    IN  {CellOf(i) : i \in {j \in idx : /\ Low10(ArrGet(c.voxels, j)) # AIR
                                       /\ HasBlock(Low10(ArrGet(c.voxels, j)))}}

\* Mutant: the neighbour is read from the chunk being meshed, so a neighbour
\* outside the chunk reads as air.
MeshFaces_LocalOnly(w, c) ==
    LET cand == MeshedCells(c)
    IN  {<<cell.x, cell.y, cell.z, f - 1,
           BlockDefs[getBlockId(c, cell.x, cell.y, cell.z)].faceTiles[f]>> :
            <<cell, f>> \in
              {cf \in cand \X (1 .. 6) :
                  ~isOpaque(getBlockId(c,
                      cf[1].x + FaceDir[cf[2]].x,
                      cf[1].y + FaceDir[cf[2]].y,
                      cf[1].z + FaceDir[cf[2]].z))}}

\* The faces the loops of createChunkMesh emit for chunk c in world w.
MeshFaces(w, c) ==
    LET chunkPos == getWorldPosition(c)
        cand == MeshedCells(c)
    IN  {<<cell.x, cell.y, cell.z, f - 1,
           BlockDefs[getBlockId(c, cell.x, cell.y, cell.z)].faceTiles[f]>> :
            <<cell, f>> \in
              {cf \in cand \X (1 .. 6) :
                  shouldRenderFace(w,
                      chunkPos.x + cf[1].x + FaceDir[cf[2]].x,
                      chunkPos.y + cf[1].y + FaceDir[cf[2]].y,
                      chunkPos.z + cf[1].z + FaceDir[cf[2]].z)}}

\* Mutant: the mesh is returned without chunk.clearDirty().
createChunkMesh_NoClear(w, c) ==
    LET faces == MeshFaces(w, c)
    IN  [mesh |-> faces # {}, faces |-> faces, chunk |-> c]

\* createChunkMesh(chunk, world, ...): null when no face was emitted, else a
\* mesh of the faces, and the chunk's dirty flag cleared.
createChunkMesh(w, c) ==
    LET faces == MeshFaces(w, c)
    IN  IF faces = {}
        THEN [mesh |-> FALSE, faces |-> faces, chunk |-> c]
        ELSE [mesh |-> TRUE, faces |-> faces, chunk |-> clearDirty(c)]

\* BabylonApp.getChunkKey(chunk): `${coord.x}_${yOffset}_${coord.z}`
appChunkKey(c) == <<c.coord.x, c.yOffset, c.coord.z>>

----------------------------------------------------------------------------
(* WorldGenerator (world/WorldGen.ts).  Settings hold mountainous, roughness, *)
(* trees and lavaPockets in tenths; noise values are in hundredths, so the *)
(* height formulas are evaluated exactly in fixed point.                   *)

\* Index of each noise field in the order the constructor creates them from
\* the one mulberry32(seed) stream.
HeightField == 1
DetailField == 2
TreeField == 3
LavaField == 4

\* createNoise2D(rng)(x * f, z * f) in hundredths, f in thousandths.  The
\* simplex-noise library is outside the repository: the field is a fixed
\* function of the seed (through the rng stream consumed in creation order)
\* and of the sample point, with values in [-1, 1].
Noise2D(seed, field, f, x, z) ==
    ((seed * 37 + field * 89 + f * 7 + x * 83 + z * 41) % 201) - 100

\* getHeightAt(x, z): Math.floor(Math.max(WORLD_MIN_Y + 3, Math.min(height, 180)))
getHeightAt(st, x, z) ==
    LET amplitude == 200 + st.mountainous * 60           \* tenths
        roughnessScale == 20 + st.roughness * 8          \* hundredths
        n1 == Noise2D(st.seed, HeightField, 10, x, z)
        n2 == Noise2D(st.seed, DetailField, 50, x, z)
        n3 == Noise2D(st.seed, HeightField, 100, x, z)
        island == Noise2D(st.seed, HeightField, 5, x, z)
        height ==
            CASE st.biomeMix = "Flatlands" ->
                    FloorDiv(3 * amplitude * n1, 10000)
              [] st.biomeMix = "Highlands" ->
                    FloorDiv(2 * amplitude * n1 + amplitude * n2, 2000)
              [] st.biomeMix = "Archipelago" ->
                    IF island > 30 THEN FloorDiv(7 * amplitude * island, 10000)
                    ELSE SEA_LEVEL - 10
              [] OTHER ->
                    FloorDiv(1000 * amplitude * n1
                             + 3 * amplitude * roughnessScale * n2
                             + amplitude * roughnessScale * n3, 1000000)
        capped == IF height < 180 THEN height ELSE 180
    IN  IF capped > WORLD_MIN_Y + 3 THEN capped ELSE WORLD_MIN_Y + 3

\* Mutant: the lava test leaves out `blockId === BlockId.BRICK`.
ColumnBlock_LavaAnywhere(st, worldX, worldY, worldZ, surfaceHeight) ==
    LET base == IF worldY <= WORLD_MIN_Y + 2 THEN BEDROCK
                ELSE IF worldY < surfaceHeight THEN BRICK
                ELSE IF worldY = surfaceHeight
                     THEN (IF surfaceHeight > SEA_LEVEL THEN GRASS ELSE BRICK)
                ELSE AIR
        lavaChance == Noise2D(st.seed, LavaField, 50, worldX, worldZ)
    IN  IF /\ st.lavaPockets > 0 /\ worldY < -10
           /\ lavaChance > 100 - st.lavaPockets * 3
        THEN LAVA
        ELSE base

\* The block generateChunk writes at world (worldX, worldY, worldZ).
ColumnBlock(st, worldX, worldY, worldZ, surfaceHeight) ==
    LET base == IF worldY <= WORLD_MIN_Y + 2 THEN BEDROCK
                ELSE IF worldY < surfaceHeight - 3 THEN BRICK
                ELSE IF worldY < surfaceHeight THEN BRICK
                ELSE IF worldY = surfaceHeight
                     THEN (IF surfaceHeight > SEA_LEVEL THEN GRASS ELSE BRICK)
                ELSE AIR
        lavaChance == Noise2D(st.seed, LavaField, 50, worldX, worldZ)
    IN  IF /\ st.lavaPockets > 0 /\ worldY < -10
           /\ lavaChance > 100 - st.lavaPockets * 3 /\ base = BRICK
        THEN LAVA
        ELSE base

\* Iterations lo .. hi, in order, of the inner localY loop of generateChunk on
\* chunk c.  The range is run as its lower half followed by its upper half;
\* `v \in {e}` names the value of e, so the lower half is evaluated before the
\* upper half starts.
RECURSIVE FillColumn(_, _, _, _, _, _, _)
FillColumn(c, st, localX, localZ, surfaceHeight, lo, hi) ==
    IF lo = hi
    THEN LET pos == getWorldPosition(c)
             blockId == ColumnBlock(st, pos.x + localX, c.yOffset + lo,
                                    pos.z + localZ, surfaceHeight)
         IN  setBlockId(c, localX, lo, localZ, blockId)
    ELSE LET mid == (lo + hi) \div 2
         IN  CHOOSE r \in
                 {FillColumn(v, st, localX, localZ, surfaceHeight, mid + 1, hi) :
                     v \in {FillColumn(c, st, localX, localZ, surfaceHeight, lo, mid)}} :
                 TRUE

\* The trunk loop of placeTree, from i upward.
RECURSIVE PlaceTrunk(_, _, _, _, _, _)
PlaceTrunk(w, x, y, z, treeHeight, i) ==
    IF i >= treeHeight THEN w
    ELSE CHOOSE r \in
             {PlaceTrunk(v, x, y, z, treeHeight, i + 1) :
                 v \in {setBlock(w, Pos(x, y + i, z), WOOD)}} : TRUE

\* The (dx, dz, dy) triples of the canopy loops, in loop order.
LeafOffsets ==
    [i \in 1 .. 75 |->
        [dx |-> ((i - 1) \div 15) - 2, dz |-> (((i - 1) \div 3) % 5) - 2,
         dy |-> (i - 1) % 3]]

Abs(n) == IF n < 0 THEN -n ELSE n

\* Iterations lo .. hi, in order, of the canopy loops of placeTree, run as the
\* lower half of the range followed by its upper half.
RECURSIVE PlaceLeaves(_, _, _, _, _, _, _)
PlaceLeaves(w, x, y, z, treeHeight, lo, hi) ==
    IF lo = hi
    THEN LET o == LeafOffsets[lo]
             leaf == Pos(x + o.dx, y + treeHeight - 2 + o.dy, z + o.dz)
             put == /\ Abs(o.dx) + Abs(o.dz) <= 3
                    /\ ~(o.dx = 0 /\ o.dz = 0 /\ o.dy < 2)
                    /\ getBlock(w, leaf) = AIR
         IN  IF put THEN setBlock(w, leaf, GRASS) ELSE w
    ELSE LET mid == (lo + hi) \div 2
         IN  CHOOSE r \in
                 {PlaceLeaves(v, x, y, z, treeHeight, mid + 1, hi) :
                     v \in {PlaceLeaves(w, x, y, z, treeHeight, lo, mid)}} : TRUE

\* placeTree(x, y, z) with treeHeight = 4 + Math.floor(Math.random() * 3)
\* given as treeHeight.
placeTree(w, x, y, z, treeHeight) ==
    CHOOSE r \in {PlaceLeaves(v, x, y, z, treeHeight, 1, Len(LeafOffsets)) :
                     v \in {PlaceTrunk(w, x, y, z, treeHeight, 0)}} : TRUE

\* Whether generateChunk calls placeTree for the column at (worldX, worldZ).
TreeAt(st, worldX, worldZ) ==
    /\ getHeightAt(st, worldX, worldZ) > SEA_LEVEL
    /\ st.trees > 0
    /\ Noise2D(st.seed, TreeField, 100, worldX, worldZ) > 100 - st.trees

\* The columns generateChunk visits, in loop order (localX outer, localZ
\* inner), restricted to the GenSpan x GenSpan corner of the chunk.
GenCols ==
    [i \in 1 .. GenSpan * GenSpan |->
        [localX |-> (i - 1) \div GenSpan, localZ |-> (i - 1) % GenSpan]]

\* The columns of the chunk at key for which generateChunk calls placeTree.
TreeCols(st, key) ==
    {i \in DOMAIN GenCols :
        TreeAt(st, key[1] * CHUNK_WIDTH + GenCols[i].localX,
                   key[3] * CHUNK_DEPTH + GenCols[i].localZ)}

\* The values of 4 + Math.floor(Math.random() * 3).
TreeHeights == 4 .. 6

\* The column loops of generateChunk on the chunk w holds at key, from the
\* i-th column on; hs[i] is the treeHeight Math.random() yields for column i.
RECURSIVE GenColumns(_, _, _, _, _)
GenColumns(w, key, st, hs, i) ==
    IF i > Len(GenCols) THEN w
    ELSE LET col == GenCols[i]
             chunkPos == getWorldPosition(w[key])
             worldX == chunkPos.x + col.localX
             worldZ == chunkPos.z + col.localZ
             surfaceHeight == getHeightAt(st, worldX, worldZ)
             w1 == [w EXCEPT ![key] =
                       FillColumn(@, st, col.localX, col.localZ, surfaceHeight,
                                  0, CHUNK_HEIGHT - 1)]
             w2 == IF TreeAt(st, worldX, worldZ)
                   THEN placeTree(w1, worldX, surfaceHeight + 1, worldZ, hs[i])
                   ELSE w1
         IN  CHOOSE r \in {GenColumns(v, key, st, hs, i + 1) : v \in {w2}} : TRUE

\* generateChunk(chunk) for the chunk w holds at key.
generateChunk(w, key, st, hs) == GenColumns(w, key, st, hs, 1)

----------------------------------------------------------------------------
(* Inputs of the world-level operations *)

\* Edited positions: both sides of the x seam between chunk 0 and chunk 1
\* (31 | 32) and between chunk -1 and chunk 0 (-1 | 0), of the z seam (-1 | 0)
\* and of the band seam (-33 | -32), two adjacent cells off the x faces and a
\* cell on no chunk face.
Positions ==
    {Pos(15, 0, 0), Pos(16, 0, 0), Pos(31, 0, 0), Pos(32, 0, 0),
     Pos(-1, 0, 0), Pos(0, 0, 0), Pos(0, 0, -1),
     Pos(0, -32, 0), Pos(0, -33, 0), Pos(15, 5, 15)}

BlockIds == {AIR, GRASS, UnknownId}

\* getOrCreateChunk arguments: the pair of the repository tests (yOffset 0)
\* and the pair in the band that holds world y = 0.
ChunkArgs ==
    {<<[x |-> 0, z |-> 0], 0>>, <<[x |-> 1, z |-> 0], 0>>,
     <<[x |-> 1, z |-> 0], WORLD_MIN_Y>>}

NoFaces == [k \in {} |-> {}]

\* lastOp: op names the operation; pos and id are setBlock's arguments; key,
\* mesh (a mesh was returned) and faces (the faces emitted) describe a rebuild.
Op(op, pos, id, key, mesh, faces) ==
    [op |-> op, pos |-> pos, id |-> id, key |-> key, mesh |-> mesh, faces |-> faces]

NoKey == <<0, 0, 0>>

NoOp == Op("init", Pos(0, 0, 0), 0, NoKey, FALSE, {})

NoWrites == [p \in {} |-> 0]

\* The WorldSettings of the repository tests, fractions in tenths.
TestSettings ==
    [seed |-> 12345, mountainous |-> 5, roughness |-> 5, trees |-> 3,
     lavaPockets |-> 2, biomeMix |-> "Balanced"]

\* No worldToLocalCoord call made yet.
NoResolved ==
    [chunk |-> [x |-> 0, z |-> 0], yOffset |-> WORLD_MIN_Y, local |-> Pos(0, 0, 0)]

\* null in a grid or pattern cell: a value equal to no item id.
Null == -1

\* No findRecipe call made yet.
EmptyGrid == <<<<Null, Null, Null>>, <<Null, Null, Null>>, <<Null, Null, Null>>>>
NoCrafting == [grid |-> EmptyGrid, recipe |-> 0]

\* No Inventory constructed yet.
NoInventory == <<>>

\* No ArrayBuffer allocated yet.
NoHeap == [buffers |-> <<>>, view |-> <<>>, held |-> {}, self |-> 0]

\* No BabylonApp constructed yet.
NoApp == [worlds |-> <<>>, world |-> 0, input |-> 0, player |-> 0, regens |-> 0]

\* No rebuild in flight; no chunk generated in either world.
NoRebuild == [active |-> FALSE, key |-> NoKey, faces |-> {}, touched |-> FALSE]
NoGen == [settings |-> TestSettings, twin |-> NoChunks, calls |-> <<>>,
          twinCalls |-> <<>>, rounds |-> 0]

\* m with key k bound to v / without key k.
MapSet(m, k, v) == [j \in DOMAIN m \cup {k} |-> IF j = k THEN v ELSE m[j]]
MapDel(m, k) == [j \in DOMAIN m \ {k} |-> m[j]]

----------------------------------------------------------------------------
(* World-level behaviour: edits through World.setBlock, chunk creation, and *)
(* the render driver's rebuilds.                                           *)

Init ==
    /\ chunks = NoChunks
    /\ chunkMeshes = NoFaces
    /\ lastOp = NoOp
    /\ written = NoWrites
    /\ edits = 0
    /\ chunk = NewChunk([x |-> 0, z |-> 0], 0)
    /\ newChunk = NewChunk([x |-> 0, z |-> 0], 0)
    /\ resolved = NoResolved
    /\ found = <<>>
    /\ app = NoApp
    /\ heap = NoHeap
    /\ inventory = NoInventory
    /\ crafting = NoCrafting
    /\ rebuild = NoRebuild
    /\ gen = NoGen

\* world.setBlock(pos, id), as the input handlers and tests call it.
SetBlock(pos, id) ==
    /\ edits < MaxEdits
    /\ chunks' = setBlock(chunks, pos, id)
    /\ edits' = edits + 1
    /\ lastOp' = Op("setBlock", pos, id, NoKey, FALSE, {})
    /\ written' = MapSet(written, pos, id)
    /\ UNCHANGED <<app, heap, inventory, crafting, resolved, found, chunkMeshes, chunk, newChunk, rebuild, gen>>

\* world.getOrCreateChunk(coord, yOffset); lastOp.pos is (coord.x, yOffset,
\* coord.z) and lastOp.key the key of the chunk returned.
GetOrCreateChunk(coord, yOffset) ==
    /\ chunks' = getOrCreateChunk(chunks, coord, yOffset)
    /\ lastOp' = Op("getOrCreateChunk", Pos(coord.x, yOffset, coord.z), 0,
                   getChunkKey(coord, yOffset), FALSE, {})
    /\ UNCHANGED <<app, heap, inventory, crafting, resolved, found, chunkMeshes, written, edits, chunk, newChunk,
                 rebuild, gen>>

\* BabylonApp.remeshChunk(chunk), called by updateChunkMeshes for a chunk with
\* needsRemesh() or without a mesh: createChunkMesh, then the mesh is stored or
\* the entry deleted.
RemeshChunk(key) ==
    /\ key \in DOMAIN chunks
    /\ needsRemesh(chunks[key]) \/ appChunkKey(chunks[key]) \notin DOMAIN chunkMeshes
    /\ LET r == createChunkMesh(chunks, chunks[key])
           akey == appChunkKey(chunks[key])
       IN  /\ chunks' = [chunks EXCEPT ![key] = r.chunk]
           /\ chunkMeshes' = IF r.mesh THEN MapSet(chunkMeshes, akey, r.faces)
                             ELSE MapDel(chunkMeshes, akey)
           /\ lastOp' = Op("remesh", Pos(0, 0, 0), 0, key, r.mesh, r.faces)
    /\ UNCHANGED <<app, heap, inventory, crafting, resolved, found, written, edits, chunk, newChunk, rebuild, gen>>

Next ==
    \/ \E pos \in Positions, id \in BlockIds : SetBlock(pos, id)
    \/ \E a \in ChunkArgs : GetOrCreateChunk(a[1], a[2])
    \/ \E key \in DOMAIN chunks : RemeshChunk(key)

Spec == Init /\ [][Next]_vars

----------------------------------------------------------------------------
(* Chunk-level behaviour: the operations of one stand-alone Chunk object,  *)
(* as Chunk.test.ts drives them, and its rebuild by the mesher.            *)

\* Local coordinates passed to the chunk: two corner cells, an inner cell, and
\* coordinates outside the chunk on each axis.
Cells == {Pos(0, 0, 0), Pos(31, 63, 31)}
OutsideCells == {Pos(-1, 0, 0), Pos(32, 0, 0), Pos(0, 64, 0), Pos(0, 0, -1)}

ChunkIds == {AIR, GRASS, UnknownId}
Metas == {0, 63}
FillIds == {AIR, UnknownId}

\* Buffers handed to deserialize: a zeroed chunk image, an image holding
\* GRASS with metadata 5 in cell (0,0,0), a 4-byte buffer and a 3-byte buffer.
Buffers ==
    {NewBuffer(2 * CHUNK_SIZE),
     [len |-> 2 * CHUNK_SIZE, even |-> 0, odd |-> 0,
      cells |-> (0 :> GRASS) @@ (1 :> 20)],
     NewBuffer(4),
     NewBuffer(3)}

InChunk(c) ==
    /\ c.x >= 0 /\ c.x < CHUNK_WIDTH
    /\ c.y >= 0 /\ c.y < CHUNK_HEIGHT
    /\ c.z >= 0 /\ c.z < CHUNK_DEPTH

ChunkFrame == UNCHANGED <<app, heap, inventory, crafting, resolved, found, chunks, chunkMeshes, written, edits, rebuild, gen>>

\* newChunk is a local of the transfer: any other operation starts without it.
DropNewChunk == newChunk' = NewChunk([x |-> 0, z |-> 0], 0)

ChunkSetBlockId(c, id) ==
    /\ chunk' = setBlockId(chunk, c.x, c.y, c.z, id)
    /\ lastOp' = Op("setBlockId", c, id, NoKey, FALSE, {})
    /\ DropNewChunk
    /\ ChunkFrame

ChunkSetMeta(c, meta) ==
    /\ chunk' = setMeta(chunk, c.x, c.y, c.z, meta)
    /\ lastOp' = Op("setMeta", c, meta, NoKey, FALSE, {})
    /\ DropNewChunk
    /\ ChunkFrame

ChunkFill(id) ==
    /\ chunk' = fill(chunk, id)
    /\ lastOp' = Op("fill", Pos(0, 0, 0), id, NoKey, FALSE, {})
    /\ DropNewChunk
    /\ ChunkFrame

\* chunk.deserialize(buffer); lastOp.id is the buffer's byteLength.
ChunkDeserialize(buffer) ==
    /\ chunk' = deserialize(chunk, buffer)
    /\ lastOp' = Op(IF deserializeThrows(buffer) THEN "deserializeError"
                    ELSE "deserialize",
                    Pos(0, 0, 0), buffer.len, NoKey, FALSE, {})
    /\ DropNewChunk
    /\ ChunkFrame

\* const buffer = chunk.serialize(); const newChunk = new Chunk(coord, 0);
\* newChunk.clearDirty(); newChunk.deserialize(buffer)
ChunkTransfer ==
    /\ newChunk' = deserialize(clearDirty(NewChunk([x |-> 0, z |-> 0], 0)),
                               serialize(chunk))
    /\ lastOp' = Op("transfer", Pos(0, 0, 0), serialize(chunk).len, NoKey, FALSE, {})
    /\ UNCHANGED chunk
    /\ ChunkFrame

ChunkMarkDirty ==
    /\ chunk' = markDirty(chunk)
    /\ lastOp' = Op("markDirty", Pos(0, 0, 0), 0, NoKey, FALSE, {})
    /\ DropNewChunk
    /\ ChunkFrame

ChunkClearDirty ==
    /\ chunk' = clearDirty(chunk)
    /\ lastOp' = Op("clearDirty", Pos(0, 0, 0), 0, NoKey, FALSE, {})
    /\ DropNewChunk
    /\ ChunkFrame

\* ChunkMesher.createChunkMesh(chunk, world, ...) on the stand-alone chunk.
ChunkRebuild ==
    /\ LET r == createChunkMesh(chunks, chunk)
       IN  /\ chunk' = r.chunk
           /\ lastOp' = Op("createChunkMesh", Pos(0, 0, 0), 0, NoKey, r.mesh, {})
    /\ DropNewChunk
    /\ ChunkFrame

NextChunk ==
    \/ \E c \in Cells \cup OutsideCells, id \in ChunkIds : ChunkSetBlockId(c, id)
    \/ \E c \in Cells \cup OutsideCells, m \in Metas : ChunkSetMeta(c, m)
    \/ \E id \in FillIds : ChunkFill(id)
    \/ \E b \in Buffers : ChunkDeserialize(b)
    \/ ChunkTransfer
    \/ ChunkMarkDirty
    \/ ChunkClearDirty
    \/ ChunkRebuild

SpecChunk == Init /\ [][NextChunk]_vars

----------------------------------------------------------------------------
(* Properties.  The helpers below state chunk geometry directly from the   *)
(* chunk extents, independently of the World operators.                    *)

\* Key of the chunk whose cell range contains world position p.
HomeKey(p) ==
    <<p.x \div CHUNK_WIDTH,
      ((p.y - WORLD_MIN_Y) \div CHUNK_HEIGHT) * CHUNK_HEIGHT + WORLD_MIN_Y,
      p.z \div CHUNK_DEPTH>>

\* p's coordinate inside its home chunk.
LocalOf(p) ==
    [x |-> p.x - HomeKey(p)[1] * CHUNK_WIDTH,
     y |-> p.y - HomeKey(p)[2],
     z |-> p.z - HomeKey(p)[3] * CHUNK_DEPTH]

\* Keys of the axis neighbours across the chunk faces p lies on.
FaceNeighbourKeys(p) ==
    LET h == HomeKey(p)
        l == LocalOf(p)
    IN  (IF l.x = 0 THEN {<<h[1] - 1, h[2], h[3]>>} ELSE {}) \cup
        (IF l.x = CHUNK_WIDTH - 1 THEN {<<h[1] + 1, h[2], h[3]>>} ELSE {}) \cup
        (IF l.z = 0 THEN {<<h[1], h[2], h[3] - 1>>} ELSE {}) \cup
        (IF l.z = CHUNK_DEPTH - 1 THEN {<<h[1], h[2], h[3] + 1>>} ELSE {}) \cup
        (IF l.y = 0 THEN {<<h[1], h[2] - CHUNK_HEIGHT, h[3]>>} ELSE {}) \cup
        (IF l.y = CHUNK_HEIGHT - 1 THEN {<<h[1], h[2] + CHUNK_HEIGHT, h[3]>>} ELSE {})

\* Positions read back: the edited ones and their six neighbours.
Probes ==
    Positions \cup
    {Pos(p.x + FaceDir[f].x, p.y + FaceDir[f].y, p.z + FaceDir[f].z) :
        p \in Positions, f \in 1 .. 6}

\* Faces of the mesh the render driver holds for chunk k (none: no mesh).
HeldFaces(k) == IF k \in DOMAIN chunkMeshes THEN chunkMeshes[k] ELSE {}

\* C1: after any sequence of World.setBlock calls on a fresh world, getBlock(p)
\* is the id of the most recent setBlock at p and air at every position never
\* written, negative coordinates and other chunks included.
C1_ReadBack ==
    \A p \in Probes :
        getBlock(chunks, p) = IF p \in DOMAIN written THEN written[p] ELSE AIR

\* C1 witness: a non-air block written at a negative coordinate and one
\* written in another chunk are both read back.
C1_Witness ==
    \E p \in DOMAIN written, q \in DOMAIN written :
        /\ p.x < 0 /\ written[p] # AIR /\ written[q] # AIR
        /\ HomeKey(p) # HomeKey(q)
        /\ getBlock(chunks, p) = written[p]
        /\ getBlock(chunks, q) = written[q]

C3_NoStaleMesh ==
    \A k \in DOMAIN chunks :
        ~chunks[k].isDirty => MeshFaces(chunks, chunks[k]) = HeldFaces(k)

\* C3 witness: chunk x=1 is clean and holds a 5-face mesh of its block at
\* x = 32 while the cell across the seam, x = 31 in chunk x=0, is opaque.
C3_Witness ==
    /\ <<1, WORLD_MIN_Y, 0>> \in DOMAIN chunks
    /\ ~chunks[<<1, WORLD_MIN_Y, 0>>].isDirty
    /\ Cardinality(HeldFaces(<<1, WORLD_MIN_Y, 0>>)) = 5
    /\ getBlock(chunks, Pos(31, 0, 0)) = GRASS
    /\ getBlock(chunks, Pos(32, 0, 0)) = GRASS

\* C4 (as claimed): with chunks {0,0} and {1,0} resident and clean at one
\* yOffset, setBlock at (31,0,0) leaves both dirty and setBlock at (15,0,0)
\* leaves {0,0} dirty and {1,0} clean.  The test pair is at yOffset 0.
C4_TestPairDirty ==
    [][\A y \in {0, WORLD_MIN_Y} :
        (/\ edits' = edits + 1
         /\ <<0, y, 0>> \in DOMAIN chunks /\ ~chunks[<<0, y, 0>>].isDirty
         /\ <<1, y, 0>> \in DOMAIN chunks /\ ~chunks[<<1, y, 0>>].isDirty)
        => /\ lastOp'.pos = Pos(31, 0, 0) =>
                chunks'[<<0, y, 0>>].isDirty /\ chunks'[<<1, y, 0>>].isDirty
           /\ lastOp'.pos = Pos(15, 0, 0) =>
                chunks'[<<0, y, 0>>].isDirty /\ ~chunks'[<<1, y, 0>>].isDirty]_vars

\* The position one step from p in the direction of face f (1..6).
Toward(p, f) == Pos(p.x + FaceDir[f].x, p.y + FaceDir[f].y, p.z + FaceDir[f].z)

OpaqueAt(p) == p \in DOMAIN written /\ isOpaque(written[p])

\* Non-air cells with a registered id that lie in chunk k, as written.
BlocksIn(k) ==
    {p \in DOMAIN written :
        HomeKey(p) = k /\ written[p] # AIR /\ HasBlock(written[p])}

\* Pairs (block of chunk k, direction) whose neighbour cell is non-opaque.
VisiblePairs(k) == {pf \in BlocksIn(k) \X (1 .. 6) : ~OpaqueAt(Toward(pf[1], pf[2]))}

AcrossSeam(k, c, f) ==
    LET n == [x |-> c.x + FaceDir[f].x, y |-> c.y + FaceDir[f].y,
              z |-> c.z + FaceDir[f].z]
    IN  [out |-> \/ n.x < 0 \/ n.x >= CHUNK_WIDTH
                 \/ n.y < 0 \/ n.y >= CHUNK_HEIGHT
                 \/ n.z < 0 \/ n.z >= CHUNK_DEPTH,
         key |-> <<k[1] + FaceDir[f].x, k[2] + FaceDir[f].y * CHUNK_HEIGHT,
                   k[3] + FaceDir[f].z>>,
         cell |-> [x |-> n.x % CHUNK_WIDTH, y |-> n.y % CHUNK_HEIGHT,
                   z |-> n.z % CHUNK_DEPTH]]

\* In world w, the face set `faces` built for chunk k has a face toward the
\* adjacent chunk exactly where the adjoining cell is not an opaque cell of a
\* resident chunk.
SeamFacesRight(w, k, faces) ==
    \A i \in DOMAIN w[k].voxels.cells, f \in 1 .. 6 :
        LET c == CellOf(i)
            id == getBlockId(w[k], c.x, c.y, c.z)
            a == AcrossSeam(k, c, f)
        IN  (id # AIR /\ HasBlock(id) /\ a.out) =>
                (<<c.x, c.y, c.z, f - 1, BlockDefs[id].faceTiles[f]>> \in faces
                 <=> ~(/\ a.key \in DOMAIN w
                       /\ isOpaque(getBlockId(w[a.key], a.cell.x, a.cell.y, a.cell.z))))

\* C7: a rebuild culls the face of a seam voxel toward a resident neighbour
\* chunk whose adjoining cell is opaque, emits it when that cell is non-opaque
\* or the neighbour chunk does not exist, and creates no chunk.
C7_SeamCulling ==
    [][lastOp'.op = "remesh" =>
        /\ DOMAIN chunks' = DOMAIN chunks
        /\ SeamFacesRight(chunks', lastOp'.key, lastOp'.faces)]_vars

\* C7 witness: chunk x=0 was just rebuilt; its block at x = 31 has no +x face
\* (the cell at x = 32 in chunk x=1 is opaque) and has its -z face (the chunk
\* at z = -1 does not exist).
C7_Witness ==
    /\ lastOp.op = "remesh" /\ lastOp.key = <<0, WORLD_MIN_Y, 0>>
    /\ getBlock(chunks, Pos(31, 0, 0)) = GRASS
    /\ getBlock(chunks, Pos(32, 0, 0)) = GRASS
    /\ <<0, WORLD_MIN_Y, -1>> \notin DOMAIN chunks
    /\ <<31, 32, 0, 4, 1>> \notin lastOp.faces
    /\ <<31, 32, 0, 3, 1>> \in lastOp.faces

\* C8: a createChunkMesh call that emits a face returns a mesh of the emitted
\* faces and leaves the chunk clean; a call that emits none returns no mesh.
C8_MeshOrEmpty ==
    lastOp.op = "remesh" =>
        /\ lastOp.faces # {} =>
              /\ lastOp.mesh
              /\ ~needsRemesh(chunks[lastOp.key])
              /\ HeldFaces(lastOp.key) = lastOp.faces
        /\ lastOp.faces = {} =>
              ~lastOp.mesh /\ lastOp.key \notin DOMAIN chunkMeshes

\* C8 witness: a rebuild of a dirty chunk that emitted faces has just returned.
C8_Witness ==
    /\ lastOp.op = "remesh" /\ lastOp.mesh /\ lastOp.faces # {}
    /\ ~needsRemesh(chunks[lastOp.key])

MutationOps == {"setBlockId", "setMeta", "fill", "deserialize", "markDirty"}

\* C5: a fresh chunk is clean; an in-range setBlockId or setMeta, a fill, a
\* deserialize and a markDirty leave it dirty; clearDirty leaves it clean; the
\* flag goes from clean to dirty only by a mutation and from dirty to clean
\* only by clearDirty or a createChunkMesh rebuild.
C5_DirtyLifecycle ==
    /\ ~needsRemesh(chunk)
    /\ [][LET o == lastOp'
          IN  /\ (o.op \in {"setBlockId", "setMeta"} /\ InChunk(o.pos))
                    => needsRemesh(chunk')
              /\ o.op \in {"fill", "deserialize", "markDirty"} => needsRemesh(chunk')
              /\ o.op = "clearDirty" => ~needsRemesh(chunk')
              /\ (~needsRemesh(chunk) /\ needsRemesh(chunk')) => o.op \in MutationOps
              /\ (needsRemesh(chunk) /\ ~needsRemesh(chunk'))
                    => o.op \in {"clearDirty", "createChunkMesh"}]_vars

\* C5 witness: a chunk that holds metadata written by setMeta has just been
\* cleaned by clearDirty.
C5_Witness ==
    /\ lastOp.op = "clearDirty" /\ ~needsRemesh(chunk)
    /\ getMeta(chunk, 0, 0, 0) = 63

----------------------------------------------------------------------------
(* Rebuilds that do not run to completion in one step: createChunkMesh     *)
(* reads the voxels (the x/y/z loops), edits may land, and then the mesh is *)
(* committed and the dirty flag cleared.                                   *)

AsyncPositions == {Pos(31, 0, 0), Pos(32, 0, 0), Pos(15, 5, 15), Pos(0, -33, 0)}

\* Whether world.setBlock(pos, ...) writes a cell of the chunk at key or a
\* seam cell next to it.
Touches(pos, key) == HomeKey(pos) = key \/ key \in FaceNeighbourKeys(pos)

\* world.setBlock(pos, id), possibly while a rebuild is in flight.
AsyncSetBlock(pos, id) ==
    /\ edits < MaxEdits
    /\ chunks' = setBlock(chunks, pos, id)
    /\ edits' = edits + 1
    /\ lastOp' = Op("setBlock", pos, id, NoKey, FALSE, {})
    /\ written' = MapSet(written, pos, id)
    /\ rebuild' = [rebuild EXCEPT !.touched =
                      @ \/ (rebuild.active /\ Touches(pos, rebuild.key))]
    /\ UNCHANGED <<app, heap, inventory, crafting, resolved, found, chunkMeshes, chunk, newChunk, gen>>

\* remeshChunk(chunk) up to the end of createChunkMesh's voxel loops.
BeginRebuild(key) ==
    /\ ~rebuild.active
    /\ key \in DOMAIN chunks
    /\ needsRemesh(chunks[key]) \/ appChunkKey(chunks[key]) \notin DOMAIN chunkMeshes
    /\ rebuild' = [active |-> TRUE, key |-> key,
                   faces |-> MeshFaces(chunks, chunks[key]), touched |-> FALSE]
    /\ lastOp' = Op("beginRebuild", Pos(0, 0, 0), 0, key, FALSE, {})
    /\ UNCHANGED <<app, heap, inventory, crafting, resolved, found, chunks, chunkMeshes, written, edits, chunk, newChunk,
                 gen>>

\* The rest of createChunkMesh and of remeshChunk: null without faces, else
\* the mesh is built, chunk.clearDirty() runs and the mesh is stored.
FinishRebuild ==
    /\ rebuild.active
    /\ LET key == rebuild.key
           akey == appChunkKey(chunks[key])
       IN  IF rebuild.faces = {}
           THEN /\ chunkMeshes' = MapDel(chunkMeshes, akey)
                /\ UNCHANGED chunks
           ELSE /\ chunkMeshes' = MapSet(chunkMeshes, akey, rebuild.faces)
                /\ chunks' = [chunks EXCEPT ![key] = clearDirty(@)]
    /\ rebuild' = [rebuild EXCEPT !.active = FALSE]
    /\ lastOp' = Op("finishRebuild", Pos(0, 0, 0), 0, rebuild.key,
                    rebuild.faces # {}, rebuild.faces)
    /\ UNCHANGED <<app, heap, inventory, crafting, resolved, found, written, edits, chunk, newChunk, gen>>

NextAsync ==
    \/ \E pos \in AsyncPositions, id \in BlockIds : AsyncSetBlock(pos, id)
    \/ \E key \in DOMAIN chunks : BeginRebuild(key)
    \/ FinishRebuild

SpecAsync == Init /\ [][NextAsync]_vars

----------------------------------------------------------------------------
(* Terrain generation in two worlds built from one WorldSettings: `chunks` *)
(* is the first world, gen.twin the second.                              *)

Seeds == {1, 3}
TreeLevels == {0, 3, 10}
LavaLevels == {0, 10}
BiomeMixes == {"Balanced", "Flatlands", "Highlands", "Archipelago"}

GenSettings ==
    {[seed |-> s, mountainous |-> 5, roughness |-> 5, trees |-> t,
      lavaPockets |-> l, biomeMix |-> b] :
        s \in Seeds, t \in TreeLevels, l \in LavaLevels, b \in BiomeMixes}

\* The chunks generateAroundPosition hands to generateChunk at coord {0,0}:
\* the two lowest bands.
GenArgs ==
    {<<[x |-> 0, z |-> 0], WORLD_MIN_Y>>,
     <<[x |-> 0, z |-> 0], WORLD_MIN_Y + CHUNK_HEIGHT>>}

InitGen ==
    /\ chunks = NoChunks
    /\ chunkMeshes = NoFaces
    /\ lastOp = NoOp
    /\ written = NoWrites
    /\ edits = 0
    /\ chunk = NewChunk([x |-> 0, z |-> 0], 0)
    /\ newChunk = NewChunk([x |-> 0, z |-> 0], 0)
    /\ resolved = NoResolved
    /\ found = <<>>
    /\ app = NoApp
    /\ heap = NoHeap
    /\ inventory = NoInventory
    /\ crafting = NoCrafting
    /\ rebuild = NoRebuild
    /\ gen \in {[NoGen EXCEPT !.settings = st] : st \in GenSettings}

\* generator.generateChunk(world.getOrCreateChunk(coord, yOffset)) in the
\* first world.
GenerateChunk(coord, yOffset) ==
    /\ Len(gen.calls) < MaxGenCalls
    /\ LET key == getChunkKey(coord, yOffset)
       IN  \E hs \in [TreeCols(gen.settings, key) -> TreeHeights] :
              /\ chunks' = generateChunk(getOrCreateChunk(chunks, coord, yOffset),
                                         key, gen.settings, hs)
              /\ gen' = [gen EXCEPT !.calls = Append(@, key)]
              /\ lastOp' = Op("generateChunk", Pos(0, 0, 0), 0, key, FALSE, {})
    /\ UNCHANGED <<app, heap, inventory, crafting, resolved, found, chunkMeshes, written, edits, chunk, newChunk,
                 rebuild>>

\* The same call in the second world.
GenerateTwinChunk(coord, yOffset) ==
    /\ Len(gen.twinCalls) < MaxGenCalls
    /\ LET key == getChunkKey(coord, yOffset)
       IN  \E hs \in [TreeCols(gen.settings, key) -> TreeHeights] :
              /\ gen' = [gen EXCEPT
                            !.twin = generateChunk(
                                getOrCreateChunk(gen.twin, coord, yOffset),
                                key, gen.settings, hs),
                            !.twinCalls = Append(@, key)]
              /\ lastOp' = Op("generateTwinChunk", Pos(0, 0, 0), 0, key, FALSE, {})
    /\ UNCHANGED <<app, heap, inventory, crafting, resolved, found, chunks, chunkMeshes, written, edits, chunk, newChunk,
                 rebuild>>

NextGen ==
    \/ \E a \in GenArgs : GenerateChunk(a[1], a[2])
    \/ \E a \in GenArgs : GenerateTwinChunk(a[1], a[2])

SpecGen == InitGen /\ [][NextGen]_vars

\* C10: two fresh worlds built from the same settings hold the same voxels in
\* a chunk once generateChunk has run on that chunk, first, in each of them.
C10_Deterministic ==
    (Len(gen.calls) = 1 /\ gen.twinCalls = gen.calls)
        => chunks[gen.calls[1]].voxels = gen.twin[gen.calls[1]].voxels

----------------------------------------------------------------------------
(* The generation driver: generateAroundPosition on one world.  gen.calls  *)
(* lists the chunks generateChunk ran on, in call order.                   *)

\* Chunk bands per column and chunk columns per axis that the driver visits
\* (`cy < 4`, `cx < 32`, `cz < 32`).
AroundBands == 4
AroundGrid == 32

AroundSettings ==
    {[seed |-> 1, mountainous |-> 5, roughness |-> 5, trees |-> t,
      lavaPockets |-> 0, biomeMix |-> b] :
        t \in {0, 3}, b \in {"Flatlands", "Balanced"}}

\* (position, radius) arguments of generateAroundPosition.
AroundArgs == {<<[x |-> 0, z |-> 0], 0>>, <<[x |-> 40, z |-> 0], 0>>}

\* The (coord, yOffset) pairs the cx / cz / cy loops reach, in loop order.
AroundChunks(position, radius) ==
    LET chunkRadius == FloorDiv(radius + CHUNK_WIDTH - 1, CHUNK_WIDTH)
        centerChunkX == FloorDiv(position.x, CHUNK_WIDTH)
        centerChunkZ == FloorDiv(position.z, CHUNK_DEPTH)
        n == 2 * chunkRadius + 1
        at(i) == [coord |-> [x |-> centerChunkX - chunkRadius + (i \div (n * AroundBands)),
                             z |-> centerChunkZ - chunkRadius + ((i \div AroundBands) % n)],
                  yOffset |-> WORLD_MIN_Y + (i % AroundBands) * CHUNK_HEIGHT]
        inGrid(e) == /\ e.coord.x >= 0 /\ e.coord.x < AroundGrid
                     /\ e.coord.z >= 0 /\ e.coord.z < AroundGrid
    IN  SelectSeq([j \in 1 .. n * n * AroundBands |-> at(j - 1)], inGrid)

\* The driver's test for a chunk not generated yet: ten cells of the chunk's
\* bottom row are air.
isEmpty(c) == \A i \in 0 .. 9 : getBlockId(c, i, 0, 0) = 0

\* The loops of generateAroundPosition from the i-th visited chunk on.  st is
\* [w, calls]; hs[<<i, col>>] is the treeHeight Math.random() yields if the
\* i-th chunk is generated and places a tree on column col.
RECURSIVE AroundLoop(_, _, _, _, _)
AroundLoop(st, settings, visit, hs, i) ==
    IF i > Len(visit) THEN st
    ELSE LET e == visit[i]
             key == getChunkKey(e.coord, e.yOffset)
             w0 == getOrCreateChunk(st.w, e.coord, e.yOffset)
             hsi == [col \in TreeCols(settings, key) |-> hs[<<i, col>>]]
             next == IF isEmpty(w0[key])
                     THEN [w |-> generateChunk(w0, key, settings, hsi),
                           calls |-> Append(st.calls, key)]
                     ELSE [w |-> w0, calls |-> st.calls]
         IN  CHOOSE r \in {AroundLoop(v, settings, visit, hs, i + 1) : v \in {next}} :
                 TRUE

generateAroundPosition(w, calls, settings, position, radius, hs) ==
    AroundLoop([w |-> w, calls |-> calls], settings,
               AroundChunks(position, radius), hs, 1)

\* The placeTree calls a driver run can make: (visit index, column).
AroundDraws(settings, position, radius) ==
    LET visit == AroundChunks(position, radius)
    IN  {<<i, col>> : i \in DOMAIN visit, col \in DOMAIN GenCols} \cap
        UNION {{<<i, col>> :
                   col \in TreeCols(settings,
                                    getChunkKey(visit[i].coord, visit[i].yOffset))} :
               i \in DOMAIN visit}

InitAround ==
    /\ chunks = NoChunks
    /\ chunkMeshes = NoFaces
    /\ lastOp = NoOp
    /\ written = NoWrites
    /\ edits = 0
    /\ chunk = NewChunk([x |-> 0, z |-> 0], 0)
    /\ newChunk = NewChunk([x |-> 0, z |-> 0], 0)
    /\ resolved = NoResolved
    /\ found = <<>>
    /\ app = NoApp
    /\ heap = NoHeap
    /\ inventory = NoInventory
    /\ crafting = NoCrafting
    /\ rebuild = NoRebuild
    /\ gen \in {[NoGen EXCEPT !.settings = st] : st \in AroundSettings}

\* generator.generateAroundPosition(position, radius)
GenerateAround(position, radius) ==
    /\ gen.rounds < MaxRounds
    /\ \E hs \in [AroundDraws(gen.settings, position, radius) -> TreeHeights] :
          LET r == generateAroundPosition(chunks, gen.calls, gen.settings,
                                          position, radius, hs)
          IN  /\ chunks' = r.w
              /\ gen' = [gen EXCEPT !.calls = r.calls, !.rounds = @ + 1]
    /\ lastOp' = Op("generateAroundPosition", Pos(position.x, radius, position.z),
                    0, NoKey, FALSE, {})
    /\ UNCHANGED <<app, heap, inventory, crafting, resolved, found, chunkMeshes, written, edits, chunk, newChunk,
                 rebuild>>

NextAround == \E a \in AroundArgs : GenerateAround(a[1], a[2])

SpecAround == InitAround /\ [][NextAround]_vars

\* The step repeats the previous generateAroundPosition call.
RepeatedAround ==
    /\ lastOp.op = "generateAroundPosition"
    /\ lastOp'.op = "generateAroundPosition"
    /\ lastOp'.pos = lastOp.pos
    /\ gen'.rounds = gen.rounds + 1

\* C11: a second generateAroundPosition call with the same position and
\* radius runs generateChunk on no chunk and leaves every voxel unchanged.
C11_AroundIdempotent ==
    [][RepeatedAround =>
          /\ gen'.calls = gen.calls
          /\ DOMAIN chunks' = DOMAIN chunks
          /\ \A k \in DOMAIN chunks : chunks'[k].voxels = chunks[k].voxels]_vars

----------------------------------------------------------------------------
(* Serialization *)

\* The cells stored apart from the fill word in a or in b, the cells the chunk
\* operations address, and a cell no operation addresses (it reads the fill
\* word, as every other cell does).
CellsToCompare(a, b) ==
    {CellOf(i) : i \in {j \in DOMAIN a.voxels.cells \cup DOMAIN b.voxels.cells :
                          j < CHUNK_SIZE}}
    \cup Cells \cup {Pos(1, 1, 1)}

\* C12: after newChunk.deserialize(chunk.serialize()) on a clean newChunk,
\* getBlockId and getMeta of every cell of newChunk equal those of chunk, and
\* newChunk is dirty.
C12_RoundTrip ==
    lastOp.op = "transfer" =>
        /\ \A c \in CellsToCompare(chunk, newChunk) :
              /\ getBlockId(newChunk, c.x, c.y, c.z) = getBlockId(chunk, c.x, c.y, c.z)
              /\ getMeta(newChunk, c.x, c.y, c.z) = getMeta(chunk, c.x, c.y, c.z)
        /\ newChunk.voxels.len = chunk.voxels.len
        /\ needsRemesh(newChunk)

\* C12 witness: a chunk holding an id above 255 and metadata has been copied.
C12_Witness ==
    /\ lastOp.op = "transfer"
    /\ getBlockId(newChunk, 31, 63, 31) = UnknownId
    /\ getMeta(newChunk, 0, 0, 0) = 63
    /\ getBlockId(newChunk, 0, 0, 0) = GRASS
    /\ needsRemesh(newChunk)

\* The step is a chunk.deserialize(buffer) call with a buffer that is not a
\* chunk image (lastOp.id is the byteLength passed).
MalformedDeserialize ==
    /\ lastOp'.op \in {"deserialize", "deserializeError"}
    /\ lastOp'.id # 2 * CHUNK_SIZE

\* C13: deserialize of a buffer of the wrong byte length raises an error,
\* leaves the voxels as they were, and leaves every in-range cell index inside
\* the backing store.
C13_MalformedRejected ==
    [][MalformedDeserialize =>
          /\ lastOp'.op = "deserializeError"
          /\ chunk'.voxels = chunk.voxels
          /\ \A c \in Cells : getIndex(c.x, c.y, c.z) < chunk'.voxels.len]_vars

\* The 16-bit word serialize() holds for the cell at index i.
SerializedWord(c, i) ==
    ByteAt(serialize(c), 2 * i) + 256 * ByteAt(serialize(c), 2 * i + 1)

\* C14: in every reachable chunk state serialize() returns W*H*D*2 bytes, the
\* word of cell (x, y, z) at index x + z*W + y*W*D.
C14_SerializedLayout ==
    /\ serialize(chunk).len = CHUNK_WIDTH * CHUNK_HEIGHT * CHUNK_DEPTH * 2
    /\ \A c \in Cells \cup {Pos(1, 1, 1)} :
          SerializedWord(chunk, c.x + c.z * CHUNK_WIDTH
                                + c.y * CHUNK_WIDTH * CHUNK_DEPTH)
            = getBlockId(chunk, c.x, c.y, c.z) + 1024 * getMeta(chunk, c.x, c.y, c.z)

----------------------------------------------------------------------------
(* The world-to-local transform as a function of the position *)

\* Coordinates on both sides of chunk and band seams, negative ones included.
CoordXs == {-65, -64, -33, -32, -31, -1, 0, 1, 31, 32, 33, 63, 64}
CoordZs == {-33, -32, -1, 0, 31, 32}
CoordYs == {-97, -96, -33, -32, -31, 0, 31, 32, 95, 96, 191}

\* world.worldToLocalCoord(pos), as getBlock and setBlock call it first.
WorldToLocalCoord(pos) ==
    /\ resolved' = worldToLocalCoord(pos)
    /\ lastOp' = Op("worldToLocalCoord", pos, 0, NoKey, FALSE, {})
    /\ UNCHANGED <<app, heap, inventory, crafting, found, chunks, chunkMeshes, written, edits, chunk, newChunk,
                 rebuild, gen>>

NextCoord ==
    \E x \in CoordXs, y \in CoordYs, z \in CoordZs : WorldToLocalCoord(Pos(x, y, z))

SpecCoord == Init /\ [][NextCoord]_vars

\* C15: for the position p last resolved, the chunk is (floor(x/W), floor(z/D)),
\* the local coordinate lies in [0,W) x [0,H) x [0,D), and chunk origin plus
\* local coordinate gives p back; x = 31, 32, -1 resolve to chunk 0 local 31,
\* chunk 1 local 0, chunk -1 local 31.
C15_LocalRoundTrip ==
    lastOp.op = "worldToLocalCoord" =>
        LET p == lastOp.pos
            r == resolved
        IN  /\ r.chunk.x * CHUNK_WIDTH <= p.x /\ p.x < (r.chunk.x + 1) * CHUNK_WIDTH
            /\ r.chunk.z * CHUNK_DEPTH <= p.z /\ p.z < (r.chunk.z + 1) * CHUNK_DEPTH
            /\ r.local.x >= 0 /\ r.local.x < CHUNK_WIDTH
            /\ r.local.y >= 0 /\ r.local.y < CHUNK_HEIGHT
            /\ r.local.z >= 0 /\ r.local.z < CHUNK_DEPTH
            /\ r.chunk.x * CHUNK_WIDTH + r.local.x = p.x
            /\ r.yOffset + r.local.y = p.y
            /\ r.chunk.z * CHUNK_DEPTH + r.local.z = p.z
            /\ p.x = 31 => (r.chunk.x = 0 /\ r.local.x = 31)
            /\ p.x = 32 => (r.chunk.x = 1 /\ r.local.x = 0)
            /\ p.x = -1 => (r.chunk.x = -1 /\ r.local.x = 31)

\* C15 witness: a position negative on every axis has been resolved.
C15_Witness ==
    /\ lastOp.op = "worldToLocalCoord"
    /\ lastOp.pos = Pos(-1, -33, -33)
    /\ resolved.chunk = [x |-> -1, z |-> -2]
    /\ resolved.local = Pos(31, 63, 31)

----------------------------------------------------------------------------
(* Radius queries on a world built by getOrCreateChunk and setBlock *)

RadiusPositions ==
    {Pos(0, 0, 0), Pos(1, 0, 0), Pos(-1, 0, -1), Pos(0, -33, 0), Pos(64, 70, 64)}

RadiusChunkArgs ==
    {<<[x |-> 0, z |-> 0], 0>>, <<[x |-> 1, z |-> 0], WORLD_MIN_Y>>,
     <<[x |-> 4, z |-> 4], WORLD_MIN_Y>>}

\* (center, radius) arguments: the test's (origin, 16), an off-origin center,
\* and a radius of more than one chunk.
RadiusArgs ==
    {<<Pos(0, 0, 0), 16>>, <<Pos(31, 0, 31), 16>>, <<Pos(0, 0, 0), 33>>}

\* world.getChunksInRadius(center, radius); lastOp.id is the radius.
GetChunksInRadius(center, radius) ==
    /\ found' = getChunksInRadius(chunks, center, radius)
    /\ lastOp' = Op("getChunksInRadius", center, radius, NoKey, FALSE, {})
    /\ UNCHANGED <<app, heap, inventory, crafting, resolved, chunks, chunkMeshes, written, edits, chunk, newChunk,
                   rebuild, gen>>

\* world.clear()
Clear ==
    /\ chunks' = clear(chunks)
    /\ lastOp' = Op("clear", Pos(0, 0, 0), 0, NoKey, FALSE, {})
    /\ UNCHANGED <<app, heap, inventory, crafting, resolved, found, chunkMeshes, written, edits, chunk, newChunk,
                   rebuild, gen>>

NextRadius ==
    \/ \E pos \in RadiusPositions : SetBlock(pos, GRASS)
    \/ \E a \in RadiusChunkArgs : GetOrCreateChunk(a[1], a[2])
    \/ \E a \in RadiusArgs : GetChunksInRadius(a[1], a[2])
    \/ Clear

SpecRadius == Init /\ [][NextRadius]_vars

\* Squared horizontal distance from p to the nearest point of the chunk cell
\* of key k / to the world origin of that chunk.
CellDistance2(p, k) ==
    LET gap(v, lo, size) == IF v < lo THEN lo - v
                            ELSE IF v > lo + size - 1 THEN v - (lo + size - 1)
                            ELSE 0
        dx == gap(p.x, k[1] * CHUNK_WIDTH, CHUNK_WIDTH)
        dz == gap(p.z, k[3] * CHUNK_DEPTH, CHUNK_DEPTH)
    IN  dx * dx + dz * dz

OriginDistance2(p, k) ==
    (k[1] * CHUNK_WIDTH - p.x) * (k[1] * CHUNK_WIDTH - p.x)
    + (k[3] * CHUNK_DEPTH - p.z) * (k[3] * CHUNK_DEPTH - p.z)

\* The keys in the sequence the last query returned.
Found == {found[i] : i \in DOMAIN found}

\* C16: every resident chunk's yOffset is WORLD_MIN_Y + k * CHUNK_HEIGHT.
C16_AlignedBands ==
    \A k \in DOMAIN chunks :
        (chunks[k].yOffset - WORLD_MIN_Y) % CHUNK_HEIGHT = 0

\* C17: a radius query returns every resident chunk, of every band and however
\* created, whose horizontal chunk cell lies within radius of the center.
C17_AllWithinRadius ==
    lastOp.op = "getChunksInRadius" =>
        \A k \in DOMAIN chunks :
            CellDistance2(lastOp.pos, k) <= lastOp.id * lastOp.id => k \in Found

\* C18: a radius query returns no chunk whose world origin is farther than
\* radius + CHUNK_WIDTH from the center, and no chunk twice.
C18_NoneOutsideRadius ==
    lastOp.op = "getChunksInRadius" =>
        /\ \A k \in Found :
              OriginDistance2(lastOp.pos, k)
                <= (lastOp.id + CHUNK_WIDTH) * (lastOp.id + CHUNK_WIDTH)
        /\ \A i, j \in DOMAIN found : found[i] = found[j] => i = j

----------------------------------------------------------------------------
(* Reads through World.getBlock and World.isSolid between edits and rebuilds *)

ReadWrites == {Pos(0, 0, 0), Pos(31, 0, 0), Pos(32, 0, 0)}
ReadIds == {GRASS, LAVA}

\* Positions read: the written ones, an unwritten cell of a resident chunk, and
\* cells of chunks that no edit creates.
ReadPositions == ReadWrites \cup {Pos(15, 5, 15), Pos(0, -33, 0), Pos(-1, 0, -1)}

\* world.getBlock(pos); lastOp.id is the id returned.
GetBlock(pos) ==
    LET r == getBlockCall(chunks, pos)
    IN  /\ chunks' = r.chunks
        /\ lastOp' = Op("getBlock", pos, r.value, NoKey, FALSE, {})
        /\ UNCHANGED <<app, heap, inventory, crafting, resolved, found, chunkMeshes, written, edits, chunk, newChunk,
                       rebuild, gen>>

\* world.isSolid(pos); lastOp.mesh is the boolean returned.
IsSolid(pos) ==
    LET r == isSolidCall(chunks, pos)
    IN  /\ chunks' = r.chunks
        /\ lastOp' = Op("isSolid", pos, 0, NoKey, r.value, {})
        /\ UNCHANGED <<app, heap, inventory, crafting, resolved, found, chunkMeshes, written, edits, chunk, newChunk,
                       rebuild, gen>>

NextRead ==
    \/ \E pos \in ReadWrites, id \in ReadIds : SetBlock(pos, id)
    \/ \E a \in ChunkArgs : GetOrCreateChunk(a[1], a[2])
    \/ \E key \in DOMAIN chunks : RemeshChunk(key)
    \/ \E pos \in ReadPositions : GetBlock(pos)
    \/ \E pos \in ReadPositions : IsSolid(pos)

SpecRead == Init /\ [][NextRead]_vars

\* C19: getBlock and isSolid leave the set of resident chunks, every voxel and
\* every dirty flag as they were, and return air / false when the chunk that
\* holds the position does not exist.
C19_ReadsPure ==
    [][/\ lastOp'.op \in {"getBlock", "isSolid"} => chunks' = chunks
       /\ lastOp'.op = "getBlock" /\ HomeKey(lastOp'.pos) \notin DOMAIN chunks
            => lastOp'.id = AIR
       /\ lastOp'.op = "isSolid" /\ HomeKey(lastOp'.pos) \notin DOMAIN chunks
            => lastOp'.mesh = FALSE]_vars

\* A read of a position whose chunk is missing, in a world that holds a clean
\* chunk and a dirty one; the chunk is still missing after the read.
C19_Witness ==
    /\ lastOp.op \in {"getBlock", "isSolid"}
    /\ HomeKey(lastOp.pos) \notin DOMAIN chunks
    /\ \E k \in DOMAIN chunks : ~chunks[k].isDirty
    /\ \E k \in DOMAIN chunks : chunks[k].isDirty

\* C20: setBlock(p, id) adds to the world exactly the chunk that contains p
\* when it is absent and none when it is present, and removes or replaces no
\* resident chunk: the other chunks keep their voxels and the chunk written
\* keeps every other block written before.
C20_LazyCreation ==
    [][lastOp'.op = "setBlock" /\ edits' = edits + 1 =>
          /\ DOMAIN chunks' = DOMAIN chunks \cup {HomeKey(lastOp'.pos)}
          /\ \A k \in DOMAIN chunks \ {HomeKey(lastOp'.pos)} :
                chunks'[k].voxels = chunks[k].voxels
          /\ \A q \in DOMAIN written \ {lastOp'.pos} :
                getBlock(chunks', q) = getBlock(chunks, q)]_vars

\* A second setBlock into the chunk the first one created: two blocks written,
\* both held, one chunk resident.
C20_Witness ==
    /\ lastOp.op = "setBlock"
    /\ edits = 2
    /\ Cardinality(DOMAIN written) = 2
    /\ \A q \in DOMAIN written : written[q] # AIR /\ getBlock(chunks, q) = written[q]
    /\ DOMAIN chunks = {HomeKey(lastOp.pos)}

\* C21: getOrCreateChunk(coord, yOffset) returns the chunk of that coord and
\* yOffset; when the key is resident the call returns the chunk already held
\* and changes neither the number of resident chunks nor any voxel or dirty
\* flag; when it is not, exactly that chunk is added and no other one changes.
C21_GetOrCreateIdempotent ==
    [][lastOp'.op = "getOrCreateChunk" =>
          LET coord == [x |-> lastOp'.pos.x, z |-> lastOp'.pos.z]
              yOffset == lastOp'.pos.y
              key == lastOp'.key
          IN  /\ key \in DOMAIN chunks'
              /\ chunks'[key].coord = coord
              /\ chunks'[key].yOffset = yOffset
              /\ key \in DOMAIN chunks => chunks' = chunks
              /\ key \notin DOMAIN chunks =>
                    /\ Cardinality(DOMAIN chunks') = Cardinality(DOMAIN chunks) + 1
                    /\ \A k \in DOMAIN chunks : chunks'[k] = chunks[k]]_vars

\* A repeated getOrCreateChunk on a chunk that an edit has written since the
\* first call, with a second chunk of the same column resident in another band.
C21_Witness ==
    /\ lastOp.op = "getOrCreateChunk"
    /\ lastOp.key = <<1, WORLD_MIN_Y, 0>>
    /\ <<1, 0, 0>> \in DOMAIN chunks
    /\ getBlock(chunks, Pos(32, 0, 0)) = GRASS
    /\ chunks[lastOp.key].isDirty

----------------------------------------------------------------------------
(* Frame of the single-cell writes, out-of-range access, and fill *)

\* Indices of the backing store whose word differs between chunks a and b.
ChangedWords(a, b) ==
    {i \in DOMAIN a.voxels.cells \cup DOMAIN b.voxels.cells :
        ArrGet(a.voxels, i) # ArrGet(b.voxels, i)}

\* The step changes no word of the chunk other than that of cell p.
OnlyCell(p) ==
    /\ chunk'.voxels.len = chunk.voxels.len
    /\ chunk'.voxels.fill = chunk.voxels.fill
    /\ ChangedWords(chunk, chunk') \subseteq {getIndex(p.x, p.y, p.z)}

\* C22: setBlockId(x,y,z,id) preserves the metadata of cell (x,y,z), setMeta
\* (x,y,z,m) preserves its block id, and neither changes any other cell.
C22_CellFrame ==
    [][LET p == lastOp'.pos
       IN  /\ lastOp'.op = "setBlockId" =>
                /\ OnlyCell(p)
                /\ getMeta(chunk', p.x, p.y, p.z) = getMeta(chunk, p.x, p.y, p.z)
           /\ lastOp'.op = "setMeta" =>
                /\ OnlyCell(p)
                /\ getBlockId(chunk', p.x, p.y, p.z) = getBlockId(chunk, p.x, p.y, p.z)]_vars

\* A setBlockId has replaced the id of a cell that carries metadata, in a chunk
\* that holds another written cell.
C22_Witness ==
    /\ lastOp.op = "setBlockId"
    /\ lastOp.pos = Pos(0, 0, 0)
    /\ getBlockId(chunk, 0, 0, 0) = GRASS
    /\ getMeta(chunk, 0, 0, 0) = 63
    /\ getBlockId(chunk, 31, 63, 31) = UnknownId

\* C23: with a local coordinate outside the chunk getBlockId returns air and
\* getMeta 0, and setBlockId / setMeta leave every voxel and the dirty flag
\* as they were.
C23_OutOfRange ==
    /\ [](\A c \in OutsideCells :
             /\ getBlockId(chunk, c.x, c.y, c.z) = AIR
             /\ getMeta(chunk, c.x, c.y, c.z) = 0)
    /\ [][lastOp'.op \in {"setBlockId", "setMeta"} /\ ~InChunk(lastOp'.pos)
             => chunk' = chunk]_vars

\* An out-of-range write of a non-air id on a clean chunk that holds a block in
\* the cell the unchecked index would alias.
C23_Witness ==
    /\ lastOp.op = "setBlockId"
    /\ lastOp.pos = Pos(32, 0, 0)
    /\ lastOp.id = GRASS
    /\ ~needsRemesh(chunk)
    /\ chunk.voxels.len = CHUNK_SIZE
    /\ chunk.voxels.fill = UnknownId

\* C24: after fill(id) every in-range cell reads id, whatever the chunk held
\* before, and the chunk is dirty.
C24_FillOverwrites ==
    lastOp.op = "fill" =>
        /\ \A c \in Cells \cup {Pos(1, 1, 1)} :
              getBlockId(chunk, c.x, c.y, c.z) = lastOp.id
        /\ \A i \in DOMAIN chunk.voxels.cells :
              i < CHUNK_SIZE => Low10(chunk.voxels.cells[i]) = lastOp.id
        /\ needsRemesh(chunk)

----------------------------------------------------------------------------
(* Ids without a registry entry *)

\* Faces of the last rebuild that belong to the voxel at world position p.
FacesOf(p) ==
    LET l == LocalOf(p)
    IN  {face \in lastOp.faces : face[1] = l.x /\ face[2] = l.y /\ face[3] = l.z}

\* C25: a stored id without a registry entry is inert: World.isSolid is false
\* at its cell, a rebuild of its chunk completes and emits no face for it, and
\* a registered voxel next to it gets the face toward it.
C25_UnknownInert ==
    /\ \A p \in DOMAIN written :
          ~HasBlock(written[p]) =>
              /\ getBlock(chunks, p) = written[p]
              /\ ~World_isSolid(chunks, p)
    /\ lastOp.op = "remesh" =>
          \A p \in DOMAIN written :
              HomeKey(p) = lastOp.key =>
                  /\ ~HasBlock(written[p]) => FacesOf(p) = {}
                  /\ HasBlock(written[p]) /\ written[p] # AIR =>
                        \A f \in 1 .. 6 :
                            /\ Toward(p, f) \in DOMAIN written
                            /\ ~HasBlock(written[Toward(p, f)])
                            => \E face \in FacesOf(p) : face[4] = f - 1

\* A rebuild of a chunk that holds a grass voxel and, next to it in the same
\* chunk, a voxel with an unregistered id: six faces, all of the grass voxel.
C25_Witness ==
    /\ lastOp.op = "remesh" /\ lastOp.mesh
    /\ Pos(15, 0, 0) \in DOMAIN written /\ written[Pos(15, 0, 0)] = GRASS
    /\ Pos(16, 0, 0) \in DOMAIN written /\ written[Pos(16, 0, 0)] = UnknownId
    /\ lastOp.key = HomeKey(Pos(15, 0, 0))
    /\ Cardinality(lastOp.faces) = 6
    /\ FacesOf(Pos(16, 0, 0)) = {}

----------------------------------------------------------------------------
(* The extent of generated terrain *)

\* The yOffsets of the bands generateAroundPosition visits.
GeneratedBands == {WORLD_MIN_Y + k * CHUNK_HEIGHT : k \in 0 .. (AroundBands - 1)}

\* C26: after any sequence of generateAroundPosition calls on a fresh world
\* every resident chunk has chunk indices cx, cz in [0, 32) and a yOffset in
\* {WORLD_MIN_Y + k * CHUNK_HEIGHT : k = 0..3}.
C26_InsideGrid ==
    \A k \in DOMAIN chunks :
        /\ k[1] \in 0 .. (AroundGrid - 1)
        /\ k[3] \in 0 .. (AroundGrid - 1)
        /\ k[2] \in GeneratedBands

\* The block of a column with surface height h at worldY, lava aside.
TerrainAt(h, worldY) ==
    IF worldY <= WORLD_MIN_Y + 2 THEN BEDROCK
    ELSE IF worldY < h THEN BRICK
    ELSE IF worldY = h THEN (IF h > SEA_LEVEL THEN GRASS ELSE BRICK)
    ELSE AIR

----------------------------------------------------------------------------
(* Edits on both sides of a chunk seam, read back *)

\* C28: once GRASS is set at (31,0,0) and at (32,0,0) the two blocks lie in
\* the chunks with x = 0 and x = 1 of the same band, getBlock returns GRASS
\* and isSolid true at both; every isSolid(p) call returns the registry's
\* solid flag of the block at p, false for air and for lava.
C28_SeamEndToEnd ==
    /\ LET a == Pos(31, 0, 0)
           b == Pos(32, 0, 0)
           ka == <<0, WORLD_MIN_Y, 0>>
           kb == <<1, WORLD_MIN_Y, 0>>
       IN  /\ a \in DOMAIN written /\ written[a] = GRASS
           /\ b \in DOMAIN written /\ written[b] = GRASS
           => /\ ka \in DOMAIN chunks /\ kb \in DOMAIN chunks
              /\ getBlockId(chunks[ka], 31, 0 - WORLD_MIN_Y, 0) = GRASS
              /\ getBlockId(chunks[kb], 0, 0 - WORLD_MIN_Y, 0) = GRASS
              /\ getBlock(chunks, a) = GRASS /\ getBlock(chunks, b) = GRASS
              /\ World_isSolid(chunks, a) /\ World_isSolid(chunks, b)
    /\ lastOp.op = "isSolid" =>
          LET id == IF lastOp.pos \in DOMAIN written THEN written[lastOp.pos] ELSE AIR
          IN  /\ lastOp.mesh = BlockDefs[id].solid
              /\ id \in {AIR, LAVA} => ~lastOp.mesh

\* isSolid has returned true at (32,0,0) with GRASS written on both sides of
\* the seam.
C28_Witness ==
    /\ lastOp.op = "isSolid" /\ lastOp.pos = Pos(32, 0, 0) /\ lastOp.mesh
    /\ DOMAIN written = {Pos(31, 0, 0), Pos(32, 0, 0)}
    /\ written[Pos(31, 0, 0)] = GRASS /\ written[Pos(32, 0, 0)] = GRASS
    /\ Cardinality(DOMAIN chunks) = 2

----------------------------------------------------------------------------
(* World extents: isInBounds and the band an in-bounds position resolves to *)

BoundsXs == {-1, 0, 1023, 1024}
BoundsZs == {0, 1023, 1024}
BoundsYs == {-33, -32, 0, 32, 160, 192, 193, 224}

\* world.isInBounds(pos); lastOp.mesh is the boolean returned.
IsInBounds(pos) ==
    /\ lastOp' = Op("isInBounds", pos, 0, NoKey, isInBounds(pos), {})
    /\ UNCHANGED <<app, heap, inventory, crafting, resolved, found, chunks, chunkMeshes, written, edits, chunk,
                   newChunk, rebuild, gen>>

NextBounds ==
    \/ \E x \in BoundsXs, y \in BoundsYs, z \in BoundsZs : IsInBounds(Pos(x, y, z))
    \/ \E x \in BoundsXs, y \in BoundsYs, z \in BoundsZs :
          WorldToLocalCoord(Pos(x, y, z))

SpecBounds == Init /\ [][NextBounds]_vars

\* The chunk r (a worldToLocalCoord result) names is one that a
\* getChunksInRadius query around p looks up and one that
\* generateAroundPosition around p visits.
CoveredChunk(p, r) ==
    LET w == getOrCreateChunk(NoChunks, r.chunk, r.yOffset)
        q == getChunksInRadius(w, p, 1)
        visit == AroundChunks([x |-> p.x, z |-> p.z], 1)
    IN  /\ \E i \in DOMAIN q : q[i] = getChunkKey(r.chunk, r.yOffset)
        /\ \E i \in DOMAIN visit :
              visit[i] = [coord |-> r.chunk, yOffset |-> r.yOffset]

\* C29: isInBounds(p) is true exactly when 0 <= x < WORLD_WIDTH,
\* 0 <= z < WORLD_DEPTH and WORLD_MIN_Y <= y <= WORLD_MAX_Y, and an in-bounds
\* position resolves to a chunk in a band that getChunksInRadius and
\* generateAroundPosition cover.
C29_InBounds ==
    /\ lastOp.op = "isInBounds" =>
          (lastOp.mesh <=>
              /\ lastOp.pos.x \in 0 .. (WORLD_WIDTH - 1)
              /\ lastOp.pos.z \in 0 .. (WORLD_DEPTH - 1)
              /\ lastOp.pos.y \in WORLD_MIN_Y .. WORLD_MAX_Y)
    /\ lastOp.op = "worldToLocalCoord" /\ isInBounds(lastOp.pos) =>
          /\ resolved.yOffset \in GeneratedBands
          /\ CoveredChunk(lastOp.pos, resolved)

\* The far top corner of the world: resolved to the highest band, then found
\* in bounds.
C29_Witness ==
    /\ lastOp.op = "isInBounds" /\ lastOp.mesh
    /\ lastOp.pos = Pos(1023, WORLD_MAX_Y, 1023)
    /\ resolved = worldToLocalCoord(lastOp.pos)
    /\ resolved.yOffset = 160
    /\ CoveredChunk(lastOp.pos, resolved)

----------------------------------------------------------------------------
(* World.clear *)

\* C30: after clear() getAllChunks() is empty, getBlock returns air at every
\* position and getChunksInRadius returns nothing; a setBlock that follows
\* creates one fresh chunk that holds the newly written block and no other.
C30_ClearDropsAll ==
    /\ [](lastOp.op = "clear" =>
             /\ getAllChunks(chunks) = {}
             /\ \A p \in RadiusPositions : getBlock(chunks, p) = AIR
             /\ \A a \in RadiusArgs : getChunksInRadius(chunks, a[1], a[2]) = <<>>)
    /\ [][lastOp.op = "clear" =>
             /\ lastOp'.op = "getChunksInRadius" => found' = <<>>
             /\ lastOp'.op = "setBlock" =>
                   LET p == lastOp'.pos
                       k == HomeKey(p)
                   IN  /\ DOMAIN chunks' = {k}
                       /\ getBlock(chunks', p) = lastOp'.id
                       /\ chunks'[k].voxels.fill = AIR
                       /\ DOMAIN chunks'[k].voxels.cells
                            = {getIndex(LocalOf(p).x, LocalOf(p).y, LocalOf(p).z)}]_vars

\* A block written, the world cleared, and a block written next to it in the
\* chunk of the first: the first block reads air.
C30_Witness ==
    /\ lastOp.op = "setBlock" /\ lastOp.pos = Pos(1, 0, 0)
    /\ Pos(0, 0, 0) \in DOMAIN written /\ written[Pos(0, 0, 0)] = GRASS
    /\ getBlock(chunks, Pos(0, 0, 0)) = AIR
    /\ getBlock(chunks, Pos(1, 0, 0)) = GRASS
    /\ Cardinality(DOMAIN chunks) = 1

----------------------------------------------------------------------------
(* CraftingSystem (game/Crafting.ts) *)

\* ItemId
STICK == 100
WOODEN_PICKAXE == 101
WOODEN_AXE == 102
WOODEN_SWORD == 103
BRICK_PICKAXE == 104
BRICK_AXE == 105
BRICK_SWORD == 106
CHICKEN_PICKAXE == 107
CHICKEN_AXE == 108
CHICKEN_SWORD == 109
CHICKEN_WAND == 110
CLUCK_SHIELD == 111

\* CraftingSystem.recipes after registerRecipes(), in registration order.
\* Every pattern is written with three rows of three cells.
Recipes ==
    <<
      [shaped |-> TRUE,
       pattern |-> <<<<WOOD, Null, Null>>, <<WOOD, Null, Null>>, <<Null, Null, Null>>>>,
       output |-> [itemId |-> STICK, count |-> 4]],
      [shaped |-> TRUE,
       pattern |-> <<<<WOOD, WOOD, Null>>, <<WOOD, WOOD, Null>>, <<Null, Null, Null>>>>,
       output |-> [itemId |-> CRAFTING_TABLE, count |-> 1]],
      [shaped |-> TRUE,
       pattern |-> <<<<WOOD, WOOD, WOOD>>, <<Null, STICK, Null>>, <<Null, STICK, Null>>>>,
       output |-> [itemId |-> WOODEN_PICKAXE, count |-> 1]],
      [shaped |-> TRUE,
       pattern |-> <<<<WOOD, WOOD, Null>>, <<WOOD, STICK, Null>>, <<Null, STICK, Null>>>>,
       output |-> [itemId |-> WOODEN_AXE, count |-> 1]],
      [shaped |-> TRUE,
       pattern |-> <<<<WOOD, Null, Null>>, <<WOOD, Null, Null>>, <<STICK, Null, Null>>>>,
       output |-> [itemId |-> WOODEN_SWORD, count |-> 1]],
      [shaped |-> TRUE,
       pattern |-> <<<<BRICK, BRICK, BRICK>>, <<Null, STICK, Null>>, <<Null, STICK, Null>>>>,
       output |-> [itemId |-> BRICK_PICKAXE, count |-> 1]],
      [shaped |-> TRUE,
       pattern |-> <<<<BRICK, BRICK, Null>>, <<BRICK, STICK, Null>>, <<Null, STICK, Null>>>>,
       output |-> [itemId |-> BRICK_AXE, count |-> 1]],
      [shaped |-> TRUE,
       pattern |-> <<<<BRICK, Null, Null>>, <<BRICK, Null, Null>>, <<STICK, Null, Null>>>>,
       output |-> [itemId |-> BRICK_SWORD, count |-> 1]],
      [shaped |-> TRUE,
       pattern |-> <<<<CHICKENHEAD, CHICKENHEAD, CHICKENHEAD>>, <<Null, STICK, Null>>, <<Null, STICK, Null>>>>,
       output |-> [itemId |-> CHICKEN_PICKAXE, count |-> 1]],
      [shaped |-> TRUE,
       pattern |-> <<<<CHICKENHEAD, CHICKENHEAD, Null>>, <<CHICKENHEAD, STICK, Null>>, <<Null, STICK, Null>>>>,
       output |-> [itemId |-> CHICKEN_AXE, count |-> 1]],
      [shaped |-> TRUE,
       pattern |-> <<<<CHICKENHEAD, Null, Null>>, <<CHICKENHEAD, Null, Null>>, <<STICK, Null, Null>>>>,
       output |-> [itemId |-> CHICKEN_SWORD, count |-> 1]],
      [shaped |-> TRUE,
       pattern |-> <<<<CHICKENHEAD, Null, Null>>, <<STICK, Null, Null>>, <<STICK, Null, Null>>>>,
       output |-> [itemId |-> CHICKEN_WAND, count |-> 1]],
      [shaped |-> TRUE,
       pattern |-> <<<<CHICKENHEAD, CHICKENHEAD, CHICKENHEAD>>, <<Null, BRICK, Null>>, <<Null, STICK, Null>>>>,
       output |-> [itemId |-> CLUCK_SHIELD, count |-> 1]]
    >>

\* matchesShapedAt(grid, recipe, offsetX, offsetY); rows and cells are indexed
\* from 1 here, from 0 in the code.
matchesShapedAt(grid, recipe, offsetX, offsetY) ==
    \A y \in 0 .. 2, x \in 0 .. 2 :
        LET recipeY == y - offsetY
            recipeX == x - offsetX
            expectedItem ==
                IF /\ recipeY >= 0 /\ recipeY < Len(recipe.pattern)
                   /\ recipeX >= 0 /\ recipeX < Len(recipe.pattern[recipeY + 1])
                THEN recipe.pattern[recipeY + 1][recipeX + 1]
                ELSE Null
        IN  expectedItem = grid[y + 1][x + 1]

\* The number of cells of a 3-row array of rows that hold item.
CountIn(rows, item) ==
    Cardinality({<<y, x>> \in (1 .. Len(rows)) \X (1 .. 3) :
                    x <= Len(rows[y]) /\ rows[y][x] = item})

\* The items other than null in a 3-row array of rows.
ItemsIn(rows) ==
    {rows[y][x] : <<y, x>> \in {yx \in (1 .. Len(rows)) \X (1 .. 3) :
                                   yx[2] <= Len(rows[yx[1]])}} \ {Null}

\* matchesShapeless(grid, recipe): the same item counts on both sides.
matchesShapeless(grid, recipe) ==
    /\ Cardinality(ItemsIn(recipe.pattern)) = Cardinality(ItemsIn(grid))
    /\ \A item \in ItemsIn(recipe.pattern) :
          CountIn(grid, item) = CountIn(recipe.pattern, item)

\* matchesRecipe(grid, recipe): the offset loops run from 0 to
\* 3 - pattern.length and 3 - pattern[0].length.
matchesRecipe(grid, recipe) ==
    IF ~recipe.shaped THEN matchesShapeless(grid, recipe)
    ELSE \E offsetY \in 0 .. (3 - Len(recipe.pattern)),
            offsetX \in 0 .. (3 - Len(recipe.pattern[1])) :
              matchesShapedAt(grid, recipe, offsetX, offsetY)

\* findRecipe(grid): the index in Recipes of the first recipe that matches,
\* 0 for null.
findRecipe(grid) ==
    IF \E i \in DOMAIN Recipes : matchesRecipe(grid, Recipes[i])
    THEN CHOOSE i \in DOMAIN Recipes :
             /\ matchesRecipe(grid, Recipes[i])
             /\ \A j \in 1 .. (i - 1) : ~matchesRecipe(grid, Recipes[j])
    ELSE 0

\* Items a grid cell holds in the grids handed to findRecipe.
GridItems == {Null, WOOD, STICK}
Grids == [1 .. 3 -> [1 .. 3 -> GridItems]]

\* A CraftingSystem about to be handed a grid: findRecipe reads nothing but
\* its argument and the recipes, so every call starts from this state.  The
\* recipe is Null until the call has returned.
InitCraft ==
    /\ chunks = NoChunks
    /\ chunkMeshes = NoFaces
    /\ lastOp = NoOp
    /\ written = NoWrites
    /\ edits = 0
    /\ chunk = NewChunk([x |-> 0, z |-> 0], 0)
    /\ newChunk = NewChunk([x |-> 0, z |-> 0], 0)
    /\ resolved = NoResolved
    /\ found = <<>>
    /\ app = NoApp
    /\ heap = NoHeap
    /\ inventory = NoInventory
    /\ crafting \in {[grid |-> grid, recipe |-> Null] : grid \in Grids}
    /\ rebuild = NoRebuild
    /\ gen = NoGen

\* CraftingSystem.findRecipe(grid)
FindRecipe ==
    /\ crafting.recipe = Null
    /\ crafting' = [crafting EXCEPT !.recipe = findRecipe(crafting.grid)]
    /\ lastOp' = Op("findRecipe", Pos(0, 0, 0), 0, NoKey, FALSE, {})
    /\ UNCHANGED <<app, heap, inventory, resolved, found, chunks, chunkMeshes, written, edits,
                   chunk, newChunk, rebuild, gen>>

NextCraft == FindRecipe

SpecCraft == InitCraft /\ [][NextCraft]_vars

\* The occupied cells of grid moved by (dx, dy); the cells moved onto from
\* outside the grid are empty.
Translated(grid, dx, dy) ==
    [y \in 1 .. 3 |->
        [x \in 1 .. 3 |->
            IF y - dy \in 1 .. 3 /\ x - dx \in 1 .. 3
            THEN grid[y - dy][x - dx] ELSE Null]]

\* The moves (dx, dy) that keep every occupied cell of grid inside the grid.
Moves(grid) ==
    {d \in (-2 .. 2) \X (-2 .. 2) :
        \A y \in 1 .. 3, x \in 1 .. 3 :
            grid[y][x] # Null => (y + d[2] \in 1 .. 3 /\ x + d[1] \in 1 .. 3)}

\* C31: when findRecipe returns a recipe for a grid, it returns the same
\* recipe for the grid with its occupied cells moved to any other position
\* inside the 3x3 grid.
C31_PositionIndependent ==
    crafting.recipe > 0 =>
        \A d \in Moves(crafting.grid) :
            findRecipe(Translated(crafting.grid, d[1], d[2])) = crafting.recipe

----------------------------------------------------------------------------
(* Inventory (engine/BabylonApp.ts) *)

\* Slots of the Inventory under test.
InvSize == 3

\* new Inventory(size): size slots {itemId: 0, count: 0}.
NewInventory(size) == [i \in 1 .. size |-> [itemId |-> 0, count |-> 0]]

\* getMaxStackSize(itemId): 1 for the registry entry named 'Bedrock', else 64.
getMaxStackSize(itemId) == IF itemId = BEDROCK THEN 1 ELSE 64

Min(a, b) == IF a < b THEN a ELSE b

\* The first loop of addItem from slot i on (slots are indexed from 1 here):
\* slots that hold the item and have room are topped up.
RECURSIVE AddToStacks(_, _, _, _)
AddToStacks(slots, itemId, remaining, i) ==
    IF i > Len(slots) \/ remaining <= 0 THEN [slots |-> slots, remaining |-> remaining]
    ELSE LET slot == slots[i]
             maxStackSize == getMaxStackSize(itemId)
         IN  IF slot.itemId = itemId /\ slot.count < maxStackSize
             THEN LET toAdd == Min(maxStackSize - slot.count, remaining)
                  IN  AddToStacks([slots EXCEPT ![i].count = @ + toAdd], itemId,
                                  remaining - toAdd, i + 1)
             ELSE AddToStacks(slots, itemId, remaining, i + 1)

\* The second loop of addItem from slot i on: empty slots are taken.
RECURSIVE AddToEmpty(_, _, _, _)
AddToEmpty(slots, itemId, remaining, i) ==
    IF i > Len(slots) \/ remaining <= 0 THEN [slots |-> slots, remaining |-> remaining]
    ELSE IF slots[i].itemId = 0
         THEN LET toAdd == Min(getMaxStackSize(itemId), remaining)
              IN  AddToEmpty([slots EXCEPT ![i] = [itemId |-> itemId, count |-> toAdd]],
                             itemId, remaining - toAdd, i + 1)
         ELSE AddToEmpty(slots, itemId, remaining, i + 1)

\* addItem(itemId, count): the slots afterwards and the number returned.
addItem(slots, itemId, count) ==
    IF count <= 0 THEN [slots |-> slots, returned |-> 0]
    ELSE LET a == AddToStacks(slots, itemId, count, 1)
             b == AddToEmpty(a.slots, itemId, a.remaining, 1)
         IN  [slots |-> b.slots, returned |-> count - b.remaining]

\* Mutant: a slot emptied by removeItem keeps its itemId.
RECURSIVE RemoveFrom_KeepingId(_, _, _, _)
RemoveFrom_KeepingId(slots, itemId, remaining, i) ==
    IF i < 1 \/ remaining <= 0 THEN [slots |-> slots, remaining |-> remaining]
    ELSE IF slots[i].itemId = itemId
         THEN LET toRemove == Min(slots[i].count, remaining)
              IN  RemoveFrom_KeepingId([slots EXCEPT ![i].count = @ - toRemove],
                                       itemId, remaining - toRemove, i - 1)
         ELSE RemoveFrom_KeepingId(slots, itemId, remaining, i - 1)

\* The loop of removeItem from slot i down.
RECURSIVE RemoveFrom(_, _, _, _)
RemoveFrom(slots, itemId, remaining, i) ==
    IF i < 1 \/ remaining <= 0 THEN [slots |-> slots, remaining |-> remaining]
    ELSE IF slots[i].itemId = itemId
         THEN LET toRemove == Min(slots[i].count, remaining)
                  left == slots[i].count - toRemove
              IN  RemoveFrom([slots EXCEPT ![i] =
                                 [itemId |-> IF left = 0 THEN 0 ELSE itemId,
                                  count |-> left]],
                             itemId, remaining - toRemove, i - 1)
         ELSE RemoveFrom(slots, itemId, remaining, i - 1)

\* removeItem(itemId, count): the slots afterwards and the number returned.
removeItem(slots, itemId, count) ==
    IF count <= 0 THEN [slots |-> slots, returned |-> 0]
    ELSE LET r == RemoveFrom(slots, itemId, count, Len(slots))
         IN  [slots |-> r.slots, returned |-> count - r.remaining]

\* countItem(itemId)
RECURSIVE CountFrom(_, _, _)
CountFrom(slots, itemId, i) ==
    IF i > Len(slots) THEN 0
    ELSE (IF slots[i].itemId = itemId THEN slots[i].count ELSE 0)
         + CountFrom(slots, itemId, i + 1)

countItem(slots, itemId) == CountFrom(slots, itemId, 1)

\* Items and amounts of the addItem / removeItem calls.
InvItems == {GRASS, WOOD, BEDROCK}
InvCounts == {0, 32, 64, 128}

InitInv ==
    /\ chunks = NoChunks
    /\ chunkMeshes = NoFaces
    /\ lastOp = NoOp
    /\ written = NoWrites
    /\ edits = 0
    /\ chunk = NewChunk([x |-> 0, z |-> 0], 0)
    /\ newChunk = NewChunk([x |-> 0, z |-> 0], 0)
    /\ resolved = NoResolved
    /\ found = <<>>
    /\ app = NoApp
    /\ heap = NoHeap
    /\ inventory = NewInventory(InvSize)
    /\ crafting = NoCrafting
    /\ rebuild = NoRebuild
    /\ gen = NoGen

InvFrame ==
    UNCHANGED <<app, heap, crafting, resolved, found, chunks, chunkMeshes, written, edits, chunk,
                newChunk, rebuild, gen>>

\* inventory.addItem(itemId, count); lastOp.id is the item, lastOp.pos.x the
\* count asked for and lastOp.pos.y the number returned.
AddItem(itemId, count) ==
    LET r == addItem(inventory, itemId, count)
    IN  /\ inventory' = r.slots
        /\ lastOp' = Op("addItem", Pos(count, r.returned, 0), itemId, NoKey, FALSE, {})
        /\ InvFrame

\* inventory.removeItem(itemId, count), recorded as addItem is.
RemoveItem(itemId, count) ==
    LET r == removeItem(inventory, itemId, count)
    IN  /\ inventory' = r.slots
        /\ lastOp' = Op("removeItem", Pos(count, r.returned, 0), itemId, NoKey, FALSE, {})
        /\ InvFrame

NextInv ==
    \/ \E itemId \in InvItems, count \in InvCounts : AddItem(itemId, count)
    \/ \E itemId \in InvItems, count \in InvCounts : RemoveItem(itemId, count)

SpecInv == InitInv /\ [][NextInv]_vars

\* C32: addItem(id, n) returns k with 0 <= k <= n, raises countItem(id) by k,
\* leaves no slot above 64 and returns less than n only when no slot can take
\* more; removeItem(id, n) returns min(n, countItem(id)), lowers countItem(id)
\* by that amount and leaves every emptied slot with itemId 0 and count 0;
\* the counts of the other items stay as they were.
C32_ItemConservation ==
    [][LET id == lastOp'.id
           n == lastOp'.pos.x
           k == lastOp'.pos.y
           others == \A o \in InvItems \ {id} :
                        countItem(inventory', o) = countItem(inventory, o)
       IN  /\ lastOp'.op = "addItem" =>
                /\ k >= 0 /\ k <= n
                /\ countItem(inventory', id) = countItem(inventory, id) + k
                /\ \A i \in DOMAIN inventory' : inventory'[i].count <= 64
                /\ k < n =>
                      \A i \in DOMAIN inventory' :
                          /\ inventory'[i].itemId # 0
                          /\ inventory'[i].itemId = id =>
                                inventory'[i].count >= getMaxStackSize(id)
                /\ others
           /\ lastOp'.op = "removeItem" =>
                /\ k = Min(n, countItem(inventory, id))
                /\ countItem(inventory', id) = countItem(inventory, id) - k
                /\ \A i \in DOMAIN inventory' :
                      inventory'[i].count = 0 => inventory'[i].itemId = 0
                /\ others]_vars

\* An addItem that could place only part of what was asked: every slot is
\* taken, two kinds of item are held, and the stacks of the item are full.
C32_Witness ==
    /\ lastOp.op = "addItem"
    /\ lastOp.pos.y > 0 /\ lastOp.pos.y < lastOp.pos.x
    /\ \A i \in DOMAIN inventory : inventory[i].itemId # 0
    /\ \E i, j \in DOMAIN inventory : inventory[i].itemId # inventory[j].itemId
    /\ countItem(inventory, lastOp.id) = 64

----------------------------------------------------------------------------
(* Terrain generation next to chunks that are already meshed: edits,       *)
(* rebuilds and generateChunk on one world.                                *)

\* Edited positions: the cells across the x seam (-1 | 0) and the z seam
\* (-1 | 0) from the first column generateChunk fills at coord {0,0}.
SeamEdits == {Pos(-1, 0, 0), Pos(0, 0, -1)}

\* Settings without trees and lava: generateChunk writes terrain only.
TerrainSettings ==
    {st \in GenSettings : st.trees = 0 /\ st.lavaPockets = 0}

InitGenMesh ==
    /\ chunks = NoChunks
    /\ chunkMeshes = NoFaces
    /\ lastOp = NoOp
    /\ written = NoWrites
    /\ edits = 0
    /\ chunk = NewChunk([x |-> 0, z |-> 0], 0)
    /\ newChunk = NewChunk([x |-> 0, z |-> 0], 0)
    /\ resolved = NoResolved
    /\ found = <<>>
    /\ app = NoApp
    /\ heap = NoHeap
    /\ inventory = NoInventory
    /\ crafting = NoCrafting
    /\ rebuild = NoRebuild
    /\ gen \in {[NoGen EXCEPT !.settings = st] : st \in TerrainSettings}

NextGenMesh ==
    \/ \E pos \in SeamEdits : SetBlock(pos, GRASS)
    \/ \E key \in DOMAIN chunks : RemeshChunk(key)
    \/ \E a \in GenArgs : GenerateChunk(a[1], a[2])

SpecGenMesh == InitGenMesh /\ [][NextGenMesh]_vars

\* The resident chunks other than b whose mesh is stored, clean, and equal to
\* what createChunkMesh emits for them in world w.
ValidMeshes(w, b) ==
    {k \in DOMAIN w \ {b} :
        /\ ~needsRemesh(w[k])
        /\ appChunkKey(w[k]) \in DOMAIN chunkMeshes
        /\ chunkMeshes[appChunkKey(w[k])] = MeshFaces(w, w[k])}

\* C33: when generateChunk fills chunk B, every other resident chunk that was
\* clean with a valid mesh and whose visible faces the new cells of B change
\* is dirty afterwards.
C33_NeighbourMeshValid ==
    [][lastOp'.op = "generateChunk" =>
          \A k \in ValidMeshes(chunks, lastOp'.key) :
              MeshFaces(chunks', chunks'[k]) # chunkMeshes[appChunkKey(chunks[k])]
                  => needsRemesh(chunks'[k])]_vars

----------------------------------------------------------------------------
(* The generation driver on terrain whose surface lies just below the seam *)
(* between the bands at yOffset -32 and 32.                                *)

\* Settings under which column (0,0) has surface height 26 or 25 and, with
\* trees above 0, carries a tree.
SeamTreeSettings ==
    {[seed |-> 1, mountainous |-> m[1], roughness |-> 5, trees |-> t,
      lavaPockets |-> 0, biomeMix |-> m[2]] :
        t \in {0, 3}, m \in {<<1, "Balanced">>, <<0, "Highlands">>}}

InitAroundSeam ==
    /\ chunks = NoChunks
    /\ chunkMeshes = NoFaces
    /\ lastOp = NoOp
    /\ written = NoWrites
    /\ edits = 0
    /\ chunk = NewChunk([x |-> 0, z |-> 0], 0)
    /\ newChunk = NewChunk([x |-> 0, z |-> 0], 0)
    /\ resolved = NoResolved
    /\ found = <<>>
    /\ app = NoApp
    /\ heap = NoHeap
    /\ inventory = NoInventory
    /\ crafting = NoCrafting
    /\ rebuild = NoRebuild
    /\ gen \in {[NoGen EXCEPT !.settings = st] : st \in SeamTreeSettings}

SpecAroundSeam == InitAroundSeam /\ [][NextAround]_vars

\* C34: once generateAroundPosition(position, radius) has returned, every
\* chunk its loops visit (cx, cz in [0,32) inside the chunk radius, four
\* bands) is among the chunks generateChunk ran on.
C34_AllVisitedGenerated ==
    lastOp.op = "generateAroundPosition" =>
        LET visit == AroundChunks([x |-> lastOp.pos.x, z |-> lastOp.pos.z],
                                  lastOp.pos.y)
        IN  \A i \in DOMAIN visit :
                \E j \in DOMAIN gen.calls :
                    gen.calls[j] = getChunkKey(visit[i].coord, visit[i].yOffset)

----------------------------------------------------------------------------
(* What is left of a tree once its chunk is generated *)

\* The positions placeTree(x, y, z) passes its two tests for with the given
\* treeHeight: the canopy cells it fills where it finds air.
CanopyCells(x, y, z, treeHeight) ==
    {Pos(x + LeafOffsets[i].dx, y + treeHeight - 2 + LeafOffsets[i].dy,
         z + LeafOffsets[i].dz) :
        i \in {j \in DOMAIN LeafOffsets :
                  /\ Abs(LeafOffsets[j].dx) + Abs(LeafOffsets[j].dz) <= 3
                  /\ ~(LeafOffsets[j].dx = 0 /\ LeafOffsets[j].dz = 0
                       /\ LeafOffsets[j].dy < 2)}}

\* C35: once generateChunk has returned, each tree it placed is in the world
\* whole: for one of the possible tree heights every canopy cell of the tree
\* holds a block, also in the columns generated after the tree's column.
C35_TreesSurvive ==
    lastOp.op = "generateChunk" =>
        \A col \in TreeCols(gen.settings, lastOp.key) :
            LET worldX == lastOp.key[1] * CHUNK_WIDTH + GenCols[col].localX
                worldZ == lastOp.key[3] * CHUNK_DEPTH + GenCols[col].localZ
                y == getHeightAt(gen.settings, worldX, worldZ) + 1
            IN  \E treeHeight \in TreeHeights :
                    \A leaf \in CanopyCells(worldX, y, worldZ, treeHeight) :
                        getBlock(chunks, leaf) # AIR

----------------------------------------------------------------------------
(* The render driver under fair scheduling: every frame updateChunkMeshes  *)
(* calls remeshChunk on each chunk in view that needs it.                  *)

LivePositions == {Pos(0, 0, 0), Pos(32, 0, 0)}

\* The keys of the chunks that can become resident.
LiveKeys ==
    {getChunkKey(a[1], a[2]) : a \in ChunkArgs} \cup {HomeKey(p) : p \in LivePositions}

NextLive ==
    \/ \E pos \in LivePositions, id \in {AIR, GRASS} : SetBlock(pos, id)
    \/ \E a \in ChunkArgs : GetOrCreateChunk(a[1], a[2])
    \/ \E key \in DOMAIN chunks : RemeshChunk(key)

\* The render loop runs update() every frame, so a rebuild that stays due is
\* eventually made.
SpecLive ==
    /\ Init
    /\ [][NextLive]_vars
    /\ \A key \in LiveKeys : WF_vars(key \in DOMAIN chunks /\ RemeshChunk(key))

\* C36: with the driver rebuilding every chunk that reports needsRemesh(),
\* from some point on no resident chunk reports needsRemesh().
C36_RebuildSettles ==
    <>[](\A key \in DOMAIN chunks : ~needsRemesh(chunks[key]))

----------------------------------------------------------------------------
(* Storage of two Chunk objects and of the ArrayBuffers that serialize()   *)
(* returns and deserialize() receives.  heap.buffers[a] is the ArrayBuffer *)
(* at address a, heap.view[n] the address of the buffer that the voxels    *)
(* array of chunk n is a view of, heap.held the addresses of the buffers   *)
(* the caller holds, heap.self the chunk the last operation was called on. *)

\* ArrayBuffers the run may allocate.
MaxBuffers == 3

ShareCells == {Pos(0, 0, 0)}

\* new Chunk(coord, 0) twice: each constructor allocates its own array.
InitShare ==
    /\ chunks = NoChunks
    /\ chunkMeshes = NoFaces
    /\ lastOp = NoOp
    /\ written = NoWrites
    /\ edits = 0
    /\ chunk = NewChunk([x |-> 0, z |-> 0], 0)
    /\ newChunk = NewChunk([x |-> 0, z |-> 0], 0)
    /\ resolved = NoResolved
    /\ found = <<>>
    /\ app = NoApp
    /\ heap = [buffers |-> <<NewBuffer(2 * CHUNK_SIZE), NewBuffer(2 * CHUNK_SIZE)>>,
               view |-> <<1, 2>>, held |-> {}, self |-> 0]
    /\ inventory = NoInventory
    /\ crafting = NoCrafting
    /\ rebuild = NoRebuild
    /\ gen = NoGen

ShareFrame ==
    UNCHANGED <<app, inventory, crafting, resolved, found, chunks, chunkMeshes, written,
                edits, chunk, newChunk, rebuild, gen>>

\* Chunk n as an object: its voxels are the words of the buffer it views.
ChunkOf(h, n) ==
    [NewChunk([x |-> 0, z |-> 0], 0) EXCEPT !.voxels = WordsOf(h.buffers[h.view[n]])]

\* A write through the voxels array of chunk n lands in the buffer it views.
WriteThrough(h, n, c) ==
    [h EXCEPT !.buffers[h.view[n]] = BytesOf(c.voxels), !.self = n]

ShareSetBlockId(n, c, id) ==
    /\ heap' = WriteThrough(heap, n, setBlockId(ChunkOf(heap, n), c.x, c.y, c.z, id))
    /\ lastOp' = Op("setBlockId", c, id, NoKey, FALSE, {})
    /\ ShareFrame

ShareSetMeta(n, c, meta) ==
    /\ heap' = WriteThrough(heap, n, setMeta(ChunkOf(heap, n), c.x, c.y, c.z, meta))
    /\ lastOp' = Op("setMeta", c, meta, NoKey, FALSE, {})
    /\ ShareFrame

ShareFill(n, id) ==
    /\ heap' = WriteThrough(heap, n, fill(ChunkOf(heap, n), id))
    /\ lastOp' = Op("fill", Pos(0, 0, 0), id, NoKey, FALSE, {})
    /\ ShareFrame

\* const buffer = chunk.serialize(): buffer.slice(0) allocates a copy, which
\* the caller holds.
ShareSerialize(n) ==
    /\ Len(heap.buffers) < MaxBuffers
    /\ heap' = [heap EXCEPT !.buffers = Append(@, serialize(ChunkOf(heap, n))),
                            !.held = @ \cup {Len(heap.buffers) + 1},
                            !.self = n]
    /\ lastOp' = Op("serialize", Pos(0, 0, 0), Len(heap.buffers) + 1, NoKey, FALSE, {})
    /\ ShareFrame

\* chunk.deserialize(buffer) with a buffer the caller holds:
\* this.voxels = new Uint16Array(buffer), a view of that buffer.
ShareDeserialize(n, a) ==
    /\ a \in heap.held
    /\ heap' = [heap EXCEPT !.view[n] = a, !.self = n]
    /\ lastOp' = Op("deserialize", Pos(0, 0, 0), a, NoKey, FALSE, {})
    /\ ShareFrame

NextShare ==
    \/ \E n \in 1 .. 2, c \in ShareCells, id \in {GRASS} : ShareSetBlockId(n, c, id)
    \/ \E n \in 1 .. 2, c \in ShareCells, m \in {5} : ShareSetMeta(n, c, m)
    \/ \E n \in 1 .. 2, id \in {BRICK} : ShareFill(n, id)
    \/ \E n \in 1 .. 2 : ShareSerialize(n)
    \/ \E n \in 1 .. 2, a \in 1 .. MaxBuffers : ShareDeserialize(n, a)

SpecShare == InitShare /\ [][NextShare]_vars

\* C37: a setBlockId, setMeta or fill on one chunk leaves the voxels of the
\* other chunk and every buffer the caller holds as they were.
C37_StorageNotShared ==
    [][lastOp'.op \in {"setBlockId", "setMeta", "fill"} =>
          /\ \A n \in (1 .. 2) \ {heap'.self} :
                ChunkOf(heap', n).voxels = ChunkOf(heap, n).voxels
          /\ \A a \in heap.held : heap'.buffers[a] = heap.buffers[a]]_vars

----------------------------------------------------------------------------
(* The neighbour reads of the mesher inside one chunk *)

\* Cells strictly inside a chunk: no face of theirs lies on a chunk face.
InnerCells == {Pos(1, 1, 1), Pos(15, 5, 15), Pos(30, 62, 30)}

\* C38: for a voxel strictly inside a resident chunk, the position
\* chunkPos + local + direction that createChunkMesh passes to World.getBlock
\* resolves to the same chunk and to the adjacent local cell.
C38_NeighbourInSameChunk ==
    \A key \in DOMAIN chunks : \A cell \in InnerCells : \A f \in DOMAIN FaceDir :
        LET chunkPos == getWorldPosition(chunks[key])
            local == Pos(cell.x + FaceDir[f].x, cell.y + FaceDir[f].y,
                         cell.z + FaceDir[f].z)
            r == worldToLocalCoord(Pos(chunkPos.x + local.x, chunkPos.y + local.y,
                                       chunkPos.z + local.z))
        IN  /\ getChunkKey(r.chunk, r.yOffset) = key
            /\ r.local = local

----------------------------------------------------------------------------
(* BabylonApp (engine/BabylonApp.ts) with its InputManager and Player.     *)
(* app.worlds[i] is the chunk map of the i-th World constructed; app.world, *)
(* app.input and app.player are the World each of the three objects holds  *)
(* in its `world` field; chunkMeshes is BabylonApp.chunkMeshes.             *)

\* regenerateWorld calls in a run.
MaxRegens == 2

\* `seed: Date.now()` of the constructor and the seeds handed to regenerateWorld.
AppSeeds == {1, 12345}

DefaultSettings(seed) ==
    [seed |-> seed, mountainous |-> 5, roughness |-> 5, trees |-> 3,
     lavaPockets |-> 2, biomeMix |-> "Balanced"]

\* spawnPos of generateWorld; the terrain is generated in the chunk column
\* that holds it.
SpawnPos == [x |-> 512, z |-> 512]

\* The camera position respawn() sets.
PlayerPos == Pos(512, 10, 512)

\* viewDistance * 32
ViewDistanceBlocks == 96

\* The resident chunks of world w in view, as keys.
InView(w) ==
    LET ks == getChunksInRadius(w, PlayerPos, ViewDistanceBlocks)
    IN  {ks[i] : i \in DOMAIN ks}

\* The world and chunkMeshes after remeshChunk(chunk) on each chunk of `due`,
\* r[k] being what createChunkMesh returns for chunk k.
RemeshWith(w, meshes, due, r) ==
    LET made == {appChunkKey(w[k]) : k \in {d \in due : r[d].mesh}}
        gone == {appChunkKey(w[k]) : k \in {d \in due : ~r[d].mesh}}
    IN  [w |-> [k \in DOMAIN w |-> IF k \in due THEN r[k].chunk ELSE w[k]],
         meshes |-> [a \in (DOMAIN meshes \ gone) \cup made |->
                        IF a \in made
                        THEN r[CHOOSE k \in due : appChunkKey(w[k]) = a].faces
                        ELSE meshes[a]]]

\* remeshChunk(chunk) on each chunk of `due`.  createChunkMesh reads voxels
\* only, so the order of the calls is immaterial.
RemeshAll(w, meshes, due) ==
    RemeshWith(w, meshes, due, [k \in due |-> createChunkMesh(w, w[k])])

\* The second loop of updateChunkMeshes: meshes of chunks out of view go.
DisposeOutOfView(r, activeKeys) ==
    [w |-> r.w, meshes |-> [a \in DOMAIN r.meshes \cap activeKeys |-> r.meshes[a]]]

\* updateChunkMeshes() with `active` the chunks getChunksInRadius returned:
\* those that need it are rebuilt.
UpdateActive(w, meshes, active) ==
    DisposeOutOfView(
        RemeshAll(w, meshes,
                  {k \in active :
                      needsRemesh(w[k]) \/ appChunkKey(w[k]) \notin DOMAIN meshes}),
        {appChunkKey(w[k]) : k \in active})

updateChunkMeshes(w, meshes) == UpdateActive(w, meshes, InView(w))

\* The onBreakBlock / onPlaceBlock callback: chunks in view that report
\* needsRemesh() are rebuilt.
editCallback(w, meshes) ==
    RemeshAll(w, meshes, {k \in InView(w) : needsRemesh(w[k])})

\* new BabylonApp(canvas): one World, handed to Player and InputManager, with
\* the terrain generateAroundPosition produced around spawnPos.
InitApp ==
    /\ chunks = NoChunks
    /\ chunkMeshes = NoFaces
    /\ lastOp = NoOp
    /\ written = NoWrites
    /\ edits = 0
    /\ chunk = NewChunk([x |-> 0, z |-> 0], 0)
    /\ newChunk = NewChunk([x |-> 0, z |-> 0], 0)
    /\ resolved = NoResolved
    /\ found = <<>>
    /\ heap = NoHeap
    /\ inventory = NoInventory
    /\ crafting = NoCrafting
    /\ rebuild = NoRebuild
    /\ \E seed \in AppSeeds :
          \E hs \in [AroundDraws(DefaultSettings(seed), SpawnPos, 0) -> TreeHeights] :
             /\ gen = [NoGen EXCEPT !.settings = DefaultSettings(seed)]
             /\ app = [worlds |-> <<generateAroundPosition(NoChunks, <<>>,
                                        DefaultSettings(seed), SpawnPos, 0, hs).w>>,
                       world |-> 1, input |-> 1, player |-> 1, regens |-> 0]

AppFrame ==
    UNCHANGED <<heap, inventory, crafting, resolved, found, chunks, written, chunk,
                newChunk, rebuild>>

\* The blocks player.raycast() can return as hit.position: the surface cells
\* of four generated columns and the cell below one of them.
AppHits ==
    {Pos(SpawnPos.x + 1, 1, SpawnPos.z), Pos(SpawnPos.x + 1, 0, SpawnPos.z),
     Pos(SpawnPos.x + 1, 26, SpawnPos.z + 1), Pos(SpawnPos.x, 40, SpawnPos.z),
     Pos(SpawnPos.x, -25, SpawnPos.z + 1)}

\* The worlds and chunkMeshes once the callback of BabylonApp has run on
\* the worlds `edited`.
WithCallback(edited, r) ==
    [worlds |-> [edited EXCEPT ![app.world] = r.w], meshes |-> r.meshes]

CallbackOn(edited) ==
    WithCallback(edited, editCallback(edited[app.world], chunkMeshes))

\* this.world.setBlock(pos, id) of the InputManager followed by the callback.
AfterEdit(pos, id) ==
    CallbackOn([app.worlds EXCEPT ![app.input] = setBlock(@, pos, id)])

\* InputManager.handleBreakBlock(): player.raycast() reads the Player's world.
HandleBreakBlock(hit) ==
    /\ edits < MaxEdits
    /\ isSolid(getBlock(app.worlds[app.player], hit))
    /\ getBlock(app.worlds[app.player], hit) # 4
    /\ \E r \in {AfterEdit(hit, 0)} :
          /\ app' = [app EXCEPT !.worlds = r.worlds]
          /\ chunkMeshes' = r.meshes
    /\ edits' = edits + 1
    /\ lastOp' = Op("handleBreakBlock", hit, 0, NoKey, FALSE, {})
    /\ UNCHANGED gen
    /\ AppFrame

\* InputManager.handlePlaceBlock() with hit.adjacent the cell above the hit
\* and itemId the id of the hotbar item.
HandlePlaceBlock(hit, itemId) ==
    /\ edits < MaxEdits
    /\ isSolid(getBlock(app.worlds[app.player], hit))
    /\ itemId > 0
    /\ ~(/\ hit.x = PlayerPos.x /\ hit.z = PlayerPos.z
         /\ hit.y + 1 >= PlayerPos.y - 2 /\ hit.y + 1 <= PlayerPos.y)
    /\ \E r \in {AfterEdit(Pos(hit.x, hit.y + 1, hit.z), itemId)} :
          /\ app' = [app EXCEPT !.worlds = r.worlds]
          /\ chunkMeshes' = r.meshes
    /\ lastOp' = Op("handlePlaceBlock", Pos(hit.x, hit.y + 1, hit.z), itemId,
                   NoKey, FALSE, {})
    /\ edits' = edits + 1
    /\ UNCHANGED gen
    /\ AppFrame

\* One frame of the render loop: update() -> updateChunkMeshes().
UpdateChunkMeshes ==
    /\ \E r \in {updateChunkMeshes(app.worlds[app.world], chunkMeshes)} :
          /\ app' = [app EXCEPT !.worlds[app.world] = r.w]
          /\ chunkMeshes' = r.meshes
    /\ lastOp' = Op("updateChunkMeshes", Pos(0, 0, 0), 0, NoKey, FALSE, {})
    /\ UNCHANGED <<gen, edits>>
    /\ AppFrame

\* regenerateWorld(settings): the meshes are dropped, the old World is
\* cleared, and BabylonApp.world is a new World; WorldGenerator.generateWorld()
\* generates nothing, and Player and InputManager are not told.
RegenerateWorld(settings) ==
    /\ app.regens < MaxRegens
    /\ chunkMeshes' = NoFaces
    /\ app' = [app EXCEPT
                  !.worlds = Append([@ EXCEPT ![app.world] = clear(@)], NoChunks),
                  !.world = Len(app.worlds) + 1,
                  !.regens = @ + 1]
    /\ gen' = [gen EXCEPT !.settings = settings]
    /\ lastOp' = Op("regenerateWorld", Pos(0, 0, 0), settings.seed, NoKey, FALSE, {})
    /\ UNCHANGED edits
    /\ AppFrame

NextApp ==
    \/ \E hit \in AppHits : HandleBreakBlock(hit)
    \/ \E hit \in AppHits, itemId \in {0, GRASS, WOOD} : HandlePlaceBlock(hit, itemId)
    \/ UpdateChunkMeshes
    \/ \E seed \in AppSeeds : RegenerateWorld(DefaultSettings(seed))

SpecApp == InitApp /\ [][NextApp]_vars

\* C39: after regenerateWorld the World the InputManager edits and the World
\* the Player queries are the World BabylonApp queries and meshes.
C39_OneWorldAfterRegenerate ==
    app.regens > 0 => (app.input = app.world /\ app.player = app.world)

----------------------------------------------------------------------------
(* Voxel packing: ids and metadata values wider than their fields *)

PackIds == {GRASS, 1023, 1024, 1025, 2047}
PackMetas == {0, 5, 63, 64, 127}

\* A chunk image whose first word is 0xFFFF.
PackBuffers ==
    {[len |-> 2 * CHUNK_SIZE, even |-> 0, odd |-> 0,
      cells |-> (0 :> 255) @@ (1 :> 255)]}

NextPack ==
    \/ \E c \in Cells, id \in PackIds : ChunkSetBlockId(c, id)
    \/ \E c \in Cells, m \in PackMetas : ChunkSetMeta(c, m)
    \/ \E id \in {AIR, 2047} : ChunkFill(id)
    \/ \E b \in PackBuffers : ChunkDeserialize(b)

SpecPack == Init /\ [][NextPack]_vars

\* The word stored for cell c.
WordAt(ch, c) == ArrGet(ch.voxels, getIndex(c.x, c.y, c.z))

\* C40: getBlockId is always in 0..1023 and getMeta in 0..63, the two being
\* the low 10 and the next 6 bits of the stored word; setBlockId(id) stores
\* id mod 1024 and leaves the metadata, setMeta(m) stores m mod 64 and leaves
\* the id.
C40_PackingInRange ==
    /\ [](\A c \in Cells :
            /\ getBlockId(chunk, c.x, c.y, c.z) \in 0 .. 1023
            /\ getMeta(chunk, c.x, c.y, c.z) \in 0 .. 63
            /\ WordAt(chunk, c) = getBlockId(chunk, c.x, c.y, c.z)
                                  + 1024 * getMeta(chunk, c.x, c.y, c.z))
    /\ [][LET c == lastOp'.pos
          IN  /\ lastOp'.op = "setBlockId" =>
                   /\ getBlockId(chunk', c.x, c.y, c.z) = lastOp'.id % 1024
                   /\ getMeta(chunk', c.x, c.y, c.z) = getMeta(chunk, c.x, c.y, c.z)
              /\ lastOp'.op = "setMeta" =>
                   /\ getMeta(chunk', c.x, c.y, c.z) = lastOp'.id % 64
                   /\ getBlockId(chunk', c.x, c.y, c.z) = getBlockId(chunk, c.x, c.y, c.z)]_vars

\* A setBlockId with an id above 1023 on a cell that holds metadata.
C40_Witness ==
    /\ lastOp.op = "setBlockId"
    /\ lastOp.id > 1023
    /\ getMeta(chunk, lastOp.pos.x, lastOp.pos.y, lastOp.pos.z) = 63
    /\ getBlockId(chunk, lastOp.pos.x, lastOp.pos.y, lastOp.pos.z) = 1

====
